---- MODULE Spec2Model ----
(***************************************************************************)
(* Guarded write policy of the Nanonis QCodes bridge                       *)
(* (nanonis_qcodes_controller/safety/policy.py).                           *)
(*                                                                         *)
(* Python floats are modelled as a binary floating-point format with      *)
(* MantBits bits of mantissa and round-to-nearest, ties-to-even, exactly   *)
(* as IEEE-754 doubles behave with 53 bits.  A float is stored as an       *)
(* integer number of quanta; the real number 1.0 is Scale quanta.  Every   *)
(* arithmetic operation of the code rounds its exact result once.          *)
(***************************************************************************)
EXTENDS Integers, Sequences, FiniteSets, TLC

\* ------------------------------------------------------------------ bounds
MantBits == 3
Scale == 4
MaxQ == 12
MaxReq == 4
ReqStride == 4
MaxTime == 2

\* ------------------------------------------------------- float arithmetic
None == -1

Abs(x) == IF x < 0 THEN -x ELSE x

Sign(x) == IF x < 0 THEN -1 ELSE 1

Max(a, b) == IF a >= b THEN a ELSE b

RECURSIVE ExpOf(_, _, _)
\* smallest exponent e >= 0 with num/den < 2^MantBits * 2^e
ExpOf(num, den, e) ==
    IF num < den * 2^(MantBits + e) THEN e ELSE ExpOf(num, den, e + 1)

\* round-half-even of the non-negative rational num/den to an integer
HalfEven(num, den) ==
    LET fl == num \div den
        r  == num % den
    IN  IF 2 * r > den \/ (2 * r = den /\ fl % 2 = 1) THEN fl + 1 ELSE fl

\* nearest representable float to the rational num/den (den > 0)
Round(num, den) ==
    LET a == Abs(num)
        e == ExpOf(a, den, 0)
    IN  Sign(num) * HalfEven(a, den * 2^e) * 2^e

IsRep(v) == Round(v, 1) = v

FAdd(a, b) == Round(a + b, 1)

FSub(a, b) == Round(a - b, 1)

\* float * float and float / float (b > 0); 1.0 is Scale quanta
FMul(a, b) == Round(a * b, Scale)

FDiv(a, b) == Round(a * Scale, b)

\* float / int and float * int: the int converts exactly
FDivInt(a, n) == Round(a, n)

FMulInt(a, i) == Round(a * i, 1)

\* math.ceil of a non-negative float, as an integer
Ceil(q) == (q + Scale - 1) \div Scale

FloatVals == {v \in (0 - MaxQ)..MaxQ : IsRep(v)}

ReqVals == {v \in FloatVals : v >= 0 /\ v <= MaxReq /\ v % ReqStride = 0}

Times == {t \in 0..MaxTime : IsRep(t)}

\* ------------------------------------------------------------ the policy
LimitChannels == {"bias_v", "setpoint_a"}

Channels == LimitChannels \cup {"unknown"}

\* the component channels of the scan frame, in the order of the command
FrameChannels ==
    <<"scan_frame_center_x_m", "scan_frame_center_y_m", "scan_frame_width_m",
      "scan_frame_height_m", "scan_frame_angle_deg">>

FrameChannelSet == {FrameChannels[k] : k \in 1..Len(FrameChannels)}

\* every key the last-write table is read or written with
AllChannels == Channels \cup FrameChannelSet

\* WritePolicy.limits: one ChannelLimit per configured channel (in quanta)
limits ==
    [c \in LimitChannels \cup FrameChannelSet |->
        CASE c = "bias_v" ->
               [min_value |-> -8, max_value |-> 8, max_step |-> 2,
                max_slew_per_s |-> 4, cooldown_s |-> 0,
                require_confirmation |-> FALSE, ramp_interval_s |-> 1]
          [] c = "scan_frame_angle_deg" ->
               [min_value |-> -8, max_value |-> 8, max_step |-> 4,
                max_slew_per_s |-> None, cooldown_s |-> 2,
                require_confirmation |-> FALSE, ramp_interval_s |-> 2]
          [] c \in FrameChannelSet \ {"scan_frame_angle_deg"} ->
               [min_value |-> -8, max_value |-> 8, max_step |-> 2,
                max_slew_per_s |-> None, cooldown_s |-> 0,
                require_confirmation |-> FALSE, ramp_interval_s |-> 1]
          [] OTHER ->
               [min_value |-> 0, max_value |-> 12, max_step |-> 3,
                max_slew_per_s |-> None, cooldown_s |-> 2,
                require_confirmation |-> TRUE, ramp_interval_s |-> 2]]

VARIABLES
    allow_writes,    \* WritePolicy.allow_writes
    dry_run,         \* WritePolicy.dry_run
    last_write_at,   \* WritePolicy._last_write_at: channel -> time or None
    now,             \* time.monotonic()
    planned,         \* <<>> or <<the last plan request and its outcome>>
    pc,              \* position of execute_plan: idle, send, sleep, record
    exec,            \* the execution in progress or last finished
    calls,           \* calls made by the current/last execute_plan, in order
    report           \* <<>> or <<the last WriteExecutionReport>>

VARIABLES
    write_audit_log, \* QcodesNanonisSTM._write_audit_log
    guard            \* the guarded write call in progress or last finished

\* the state of the instrument facade
instrumentVars == <<write_audit_log, guard>>

VARIABLES
    retry_count,     \* NanonisTransportClient._retry_count
    session,         \* NanonisTransportClient._session: a session id or None
    active_port,     \* NanonisTransportClient._active_port: a port or None
    open_sessions,   \* the backend sessions that are open
    wire,            \* per session: the commands sent and not yet answered
    lock,            \* the owner of NanonisTransportClient._lock or None
    thr              \* per caller thread: its transport operation and locals

\* the state of the transport client and of its backend
transportVars == <<retry_count, session, active_port, open_sessions, wire,
                   lock, thr>>

VARIABLES
    runs,            \* table runs: run names, the row id is the position
    signal_catalog,  \* table signal_catalog: run_id per row
    spec_catalog,    \* table spec_catalog: run_id per row
    signal_samples,  \* table signal_samples: run_id and signal_id per row
    spec_samples,    \* table spec_samples: run_id and spec_id per row
    store_tx         \* the last store call and its outcome

\* the state of the trajectory store
storeVars == <<runs, signal_catalog, spec_catalog, signal_samples,
               spec_samples, store_tx>>

VARIABLES
    clock,           \* the monotonic clock the monitor reads
    runner,          \* the fields of the TrajectoryMonitorRunner
    tick,            \* the run_iterations call in progress or last finished
    action_events,   \* table action_events
    monitor_errors,  \* table monitor_errors
    cli              \* the `trajectory monitor run` command

\* the state of the trajectory monitor and of the command that drives it
monitorVars == <<clock, runner, tick, action_events, monitor_errors, cli>>

VARIABLES
    caller,          \* per caller thread: the execute_plan call in progress
    plans_held,      \* per caller thread: the WritePlans returned, not yet run
    live_writes      \* the live writes sent so far: channel, first/last send

\* the callers that share one WritePolicy
callerVars == <<caller, plans_held, live_writes>>

VARIABLES
    last_state_values,  \* QcodesNanonisSTM._last_state_values
    trajectory_events,  \* the state_transition events passed to the journal
    reads,              \* the parameter reads in the order they returned
    reader              \* per reader thread: the getter call in progress

\* the parameter getters of the facade and the threads that call them
readVars == <<last_state_values, trajectory_events, reads, reader>>

VARIABLES
    journal,      \* the TrajectoryJournal's counters, stop flag, thread and file
    event_queue,  \* TrajectoryJournal._queue: the ids of the events queued
    segments,     \* the journal files: the ids of the lines each one received
    emitter,      \* per thread: the emit() call in progress
    writer,       \* the writer thread's position in _run
    owner,        \* the position of the thread that starts and closes
    write_raised, \* the events whose _write_event raised
    accepted_before_close \* the events enqueued before close() was called

\* the trajectory journal, its emitters, its writer and its owner
journalVars == <<journal, event_queue, segments, emitter, writer, owner, write_raised, accepted_before_close>>

VARIABLES
    document,  \* the mapping of one parameter of the parameter file
    load_pc,   \* "document" before load_parameter_specs, "loaded" after
    loaded     \* what load_parameter_specs returned or raised

\* the parameter file and its load
catalogueVars == <<document, load_pc, loaded>>

\* the callers of the policy, the readers of the facade, the journal and the
\* parameter file
furtherVars == <<callerVars, readVars, journalVars, catalogueVars>>

\* everything the instrument facade's guarded writes leave alone
beyondInstrument == <<transportVars, storeVars, monitorVars, furtherVars>>

\* everything the write policy itself neither reads nor writes
beyondPolicy == <<instrumentVars, beyondInstrument>>

\* the state of the write policy and of its execute_plan call
policyVars == <<allow_writes, dry_run, last_write_at, now, planned, pc, exec,
                calls, report>>

vars == <<allow_writes, dry_run, last_write_at, now, planned, pc, exec,
          calls, report, beyondPolicy>>

\* mutant: the write gate is not consulted
EnsureWritesEnabled_Open(allow) == TRUE

\* ensure_writes_enabled: TRUE when the gate lets the request pass
EnsureWritesEnabled(allow) == allow

\* _require_channel_limit: TRUE when a limit is configured
RequireChannelLimit(channel) == channel \in DOMAIN limits

\* mutant: the bounds are exclusive
OutsideBounds_Exclusive(target, limit) ==
    target <= limit.min_value \/ target >= limit.max_value

\* the bounds test of plan_scalar_write: TRUE when the target is rejected
OutsideBounds(target, limit) ==
    target < limit.min_value \/ target > limit.max_value

\* mutant: the boundary of the cooldown window is blocked too
EnforceCooldown_Inclusive(limit, last_time, now_s) ==
    IF limit.cooldown_s <= 0 THEN FALSE
    ELSE IF last_time = None THEN FALSE
    ELSE FSub(now_s, last_time) <= limit.cooldown_s

\* _enforce_cooldown: TRUE when the request is blocked
EnforceCooldown(limit, last_time, now_s) ==
    IF limit.cooldown_s <= 0 THEN FALSE
    ELSE IF last_time = None THEN FALSE
    ELSE FSub(now_s, last_time) < limit.cooldown_s

\* _enforce_confirmation: TRUE when ConfirmationRequired is raised;
\* approved is the answer of the confirmation hook (FALSE without a hook)
EnforceConfirmation(limit, confirmed, approved) ==
    IF ~limit.require_confirmation THEN FALSE
    ELSE IF confirmed THEN FALSE
    ELSE ~approved

\* the slew step size of _build_steps
SlewStepSize(limit, interval_s) == FMul(limit.max_slew_per_s, interval_s)

\* _build_steps raises when a slew limit meets a non-positive interval
BuildStepsRaises(current, target, limit) ==
    /\ FSub(target, current) # 0
    /\ limit.max_slew_per_s # None
    /\ limit.ramp_interval_s <= 0

\* mutant: the step count is taken as floor + 1 instead of the ceiling
StepCount_FloorPlusOne(delta, limit) ==
    LET by_step == (FDiv(Abs(delta), limit.max_step) \div Scale) + 1
    IN  IF limit.max_slew_per_s # None
        THEN Max(by_step,
                 (FDiv(Abs(delta),
                       SlewStepSize(limit, limit.ramp_interval_s)) \div Scale) + 1)
        ELSE by_step

StepCount(delta, limit) ==
    LET by_step == Max(1, Ceil(FDiv(Abs(delta), limit.max_step)))
    IN  IF limit.max_slew_per_s # None
        THEN Max(by_step,
                 Ceil(FDiv(Abs(delta),
                           SlewStepSize(limit, limit.ramp_interval_s))))
        ELSE by_step

\* mutant: the last step is left as computed
RepairLast_Skipped(steps, target) == steps

\* the repair of the last step of _build_steps
RepairLast(steps, target) ==
    IF steps[Len(steps)] # target
    THEN [steps EXCEPT ![Len(steps)] = target]
    ELSE steps

BuildSteps(current, target, limit) ==
    LET delta == FSub(target, current)
    IN  IF delta = 0 THEN <<target>>
        ELSE LET step_count == StepCount(delta, limit)
                 increment  == FDivInt(delta, step_count)
                 steps == [i \in 1..step_count |->
                              FAdd(current, FMulInt(increment, i))]
             IN  RepairLast(steps, target)

Violation(exc, error) ==
    [ok |-> FALSE, exc |-> exc, error |-> error, steps |-> <<>>,
     interval_s |-> 0, dry_run |-> FALSE]

WritePlan(steps, interval_s, dry) ==
    [ok |-> TRUE, exc |-> "none", error |-> "none", steps |-> steps,
     interval_s |-> interval_s, dry_run |-> dry]

\* mutant: a dry-run request is not held back by the cooldown
PlanScalarWrite_DrySkipsCooldown(allow, dry, lw, channel, current, target, confirmed, approved, now_s) ==
    IF ~EnsureWritesEnabled(allow)
    THEN Violation("PolicyViolation", "writes_disabled")
    ELSE IF ~RequireChannelLimit(channel)
    THEN Violation("PolicyViolation", "no_channel_limit")
    ELSE LET limit == limits[channel] IN
    IF OutsideBounds(target, limit)
    THEN Violation("PolicyViolation", "bounds")
    ELSE IF ~dry /\ EnforceCooldown(limit, lw[channel], now_s)
    THEN Violation("PolicyViolation", "cooldown")
    ELSE IF EnforceConfirmation(limit, confirmed, approved)
    THEN Violation("ConfirmationRequired", "confirmation")
    ELSE IF BuildStepsRaises(current, target, limit)
    THEN Violation("PolicyViolation", "ramp_interval")
    ELSE WritePlan(BuildSteps(current, target, limit),
                   limit.ramp_interval_s, dry)

\* WritePolicy.plan_scalar_write as a function of the policy state and inputs
PlanScalarWrite(allow, dry, lw, channel, current, target, confirmed, approved, now_s) ==
    IF ~EnsureWritesEnabled(allow)
    THEN Violation("PolicyViolation", "writes_disabled")
    ELSE IF ~RequireChannelLimit(channel)
    THEN Violation("PolicyViolation", "no_channel_limit")
    ELSE LET limit == limits[channel] IN
    IF OutsideBounds(target, limit)
    THEN Violation("PolicyViolation", "bounds")
    ELSE IF EnforceCooldown(limit, lw[channel], now_s)
    THEN Violation("PolicyViolation", "cooldown")
    ELSE IF EnforceConfirmation(limit, confirmed, approved)
    THEN Violation("ConfirmationRequired", "confirmation")
    ELSE IF BuildStepsRaises(current, target, limit)
    THEN Violation("PolicyViolation", "ramp_interval")
    ELSE WritePlan(BuildSteps(current, target, limit),
                   limit.ramp_interval_s, dry)

\* mutant: the single-step request is planned as a ramp
PlanScalarWriteSingleStep_Ramp(allow, dry, lw, channel, current, target, interval_arg, now_s) ==
    PlanScalarWrite(allow, dry, lw, channel, current, target, TRUE, FALSE,
                    now_s)

\* plan_scalar_write_single_step(channel, current, target, interval_s?):
\* one step to the target, refused when the move exceeds max_step or the
\* slew allowance max_slew_per_s * interval_s
PlanScalarWriteSingleStep(allow, dry, lw, channel, current, target, interval_arg, now_s) ==
    IF ~EnsureWritesEnabled(allow)
    THEN Violation("PolicyViolation", "writes_disabled")
    ELSE IF ~RequireChannelLimit(channel)
    THEN Violation("PolicyViolation", "no_channel_limit")
    ELSE LET limit == limits[channel]
             interval_s == IF interval_arg = None
                           THEN limit.ramp_interval_s ELSE interval_arg
             delta == Abs(FSub(target, current))
    IN
    IF OutsideBounds(target, limit)
    THEN Violation("PolicyViolation", "bounds")
    ELSE IF EnforceCooldown(limit, lw[channel], now_s)
    THEN Violation("PolicyViolation", "cooldown")
    ELSE IF delta > limit.max_step
    THEN Violation("PolicyViolation", "max_step")
    ELSE IF limit.max_slew_per_s # None
            /\ delta > SlewStepSize(limit, interval_s)
    THEN Violation("PolicyViolation", "max_slew_per_s")
    ELSE WritePlan(<<target>>, interval_s, dry)

\* a plan request: the inputs and the policy state the planner reads
Request(kind, channel, current, target, confirmed, approved, interval_arg) ==
    [kind |-> kind, channel |-> channel, current_value |-> current,
     target_value |-> target, confirmed |-> confirmed,
     approved |-> approved, interval_arg |-> interval_arg, now_s |-> now,
     last_time |-> last_write_at[channel], allow |-> allow_writes,
     dry |-> dry_run]

\* a last-write table that holds last_time for the channel, other elsewhere
TableOf(channel, last_time, other) ==
    [c \in AllChannels |-> IF c = channel THEN last_time ELSE other]

\* the outcome of a request under the policy state given explicitly
OutcomeUnder(req, allow, dry, lw) ==
    IF req.kind = "scalar"
    THEN PlanScalarWrite(allow, dry, lw, req.channel, req.current_value,
                         req.target_value, req.confirmed, req.approved,
                         req.now_s)
    ELSE PlanScalarWriteSingleStep(allow, dry, lw, req.channel,
                                   req.current_value, req.target_value,
                                   req.interval_arg, req.now_s)

\* the outcome of a request as the planner computes it
PlanOutcome(req) ==
    OutcomeUnder(req, req.allow, req.dry,
                 TableOf(req.channel, req.last_time, None))

\* mutant: the write is not recorded
RecordWrite_Lost(lw, channel, at_time_s) == lw

\* record_write on the last-write table
RecordWrite(lw, channel, at_time_s) == [lw EXCEPT ![channel] = at_time_s]

\* the report of execute_plan for a dry-run plan
DryRunReport(p) ==
    [channel |-> p.req.channel, dry_run |-> TRUE,
     attempted_steps |-> Len(p.res.steps), applied_steps |-> 0,
     initial_value |-> p.req.current_value,
     target_value |-> p.req.target_value,
     final_value |-> IF Len(p.res.steps) > 0
                     THEN p.res.steps[Len(p.res.steps)]
                     ELSE p.req.current_value]

\* the report of execute_plan after the loop of a live plan
LiveReport(e) ==
    [channel |-> e.channel, dry_run |-> FALSE,
     attempted_steps |-> Len(e.steps), applied_steps |-> e.applied,
     initial_value |-> e.current_value, target_value |-> e.target_value,
     final_value |-> IF Len(e.steps) > 0 THEN e.steps[Len(e.steps)]
                     ELSE e.current_value]

\* the local state of one execute_plan call
Execution(p) ==
    [channel |-> p.req.channel, steps |-> p.res.steps,
     interval_s |-> p.res.interval_s, dry_run |-> p.res.dry_run,
     current_value |-> p.req.current_value,
     target_value |-> p.req.target_value, idx |-> 1, applied |-> 0,
     lw0 |-> last_write_at, raised |-> FALSE]

NoExecution ==
    [channel |-> "unknown", steps |-> <<>>, interval_s |-> 0,
     dry_run |-> FALSE, current_value |-> 0, target_value |-> 0, idx |-> 1,
     applied |-> 0, lw0 |-> [c \in AllChannels |-> None], raised |-> FALSE]

IntervalArgs == {None, 2}

\* ------------------------------------------------- the instrument facade
MaxAudit == 2

\* ScanFrameState as the tuple (center_x, center_y, width, height, angle)
Frame(x, a) == <<x, 0, MaxReq, MaxReq, a>>

FrameVals == {Frame(x, a) : x \in ReqVals, a \in ReqVals}

\* the repair of the last frame of _interpolate_scan_frame_steps
RepairLastFrame(steps, target) ==
    IF steps[Len(steps)] # target
    THEN [steps EXCEPT ![Len(steps)] = target]
    ELSE steps

\* _interpolate_scan_frame_steps
InterpolateScanFrameSteps(current, target, step_count) ==
    IF step_count <= 0 THEN <<target>>
    ELSE LET steps ==
                 [i \in 1..step_count |->
                     LET fraction == Round(i * Scale, step_count)
                     IN  [k \in 1..Len(FrameChannels) |->
                             FAdd(current[k],
                                  FMul(FSub(target[k], current[k]), fraction))]]
         IN  RepairLastFrame(steps, target)

\* the component plans of plan_scan_frame_set, in the order they are made
ComponentPlans(allow, dry, lw, current, target, confirmed, now_s) ==
    [k \in 1..Len(FrameChannels) |->
        PlanScalarWrite(allow, dry, lw, FrameChannels[k], current[k],
                        target[k], confirmed, FALSE, now_s)]

RECURSIVE MaxOver(_, _)
\* max(f[1], ..., f[n]) of a non-empty tuple of numbers
MaxOver(f, n) == IF n = 1 THEN f[1] ELSE Max(f[n], MaxOver(f, n - 1))

\* plan_scan_frame_set once the current frame has been read: the first
\* component that is refused raises, otherwise the frame plan is returned
FramePlanFrom(plans, current, target) ==
    LET n == Len(FrameChannels)
    IN  IF \E k \in 1..n : ~plans[k].ok
        THEN LET first == CHOOSE k \in 1..n :
                              /\ ~plans[k].ok
                              /\ \A j \in 1..(k - 1) : plans[j].ok
             IN  Violation(plans[first].exc, plans[first].error)
        ELSE LET max_steps == MaxOver([k \in 1..n |-> Len(plans[k].steps)], n)
                 interval_s == MaxOver([k \in 1..n |-> plans[k].interval_s], n)
             IN  WritePlan(InterpolateScanFrameSteps(current, target, max_steps),
                           interval_s,
                           \E k \in 1..n : plans[k].dry_run)

PlanScanFrameSet(allow, dry, lw, current, target, confirmed, now_s) ==
    LET plans == CHOOSE ps \in {ComponentPlans(allow, dry, lw, current, target,
                                               confirmed, now_s)} : TRUE
    IN  FramePlanFrom(plans, current, target)

\* GuardedWriteAuditEntry; a key missing from the metadata is None
AuditEntry(operation, status, dry, detail, attempted, applied) ==
    [operation |-> operation, status |-> status, dry_run |-> dry,
     detail |-> detail, attempted_steps |-> attempted,
     applied_steps |-> applied]

\* _append_write_audit
AppendWriteAudit(log, entry) == Append(log, entry)

\* the locals of one guarded write call of the facade
GuardedCall(op, phase, outcome, raised_in, exc) ==
    [op |-> op, phase |-> phase, outcome |-> outcome,
     raised_in |-> raised_in, exc |-> exc, base |-> Len(write_audit_log),
     steps |-> <<>>, interval_s |-> 0, idx |-> 1, applied |-> 0]

NoGuardedCall ==
    [op |-> "none", phase |-> "idle", outcome |-> "none",
     raised_in |-> "none", exc |-> "none", base |-> 0, steps |-> <<>>,
     interval_s |-> 0, idx |-> 1, applied |-> 0]

InstrumentInit ==
    /\ write_audit_log = <<>>
    /\ guard = NoGuardedCall

\* ---------------------------------------------------- the transport client
MaxRetry == 2
MaxSessions == 3
NumThreads == 2

\* NanonisConnectionSettings.retry_count
DefaultRetryCount == 1

\* the number of per-attempt failures the connect error summarises
SummaryTail == 5

\* the candidate ports, in the supplied order
Ports == <<3364, 6501>>

Threads == 1..NumThreads

Commands == {"Bias_Get", "Current_Get"}

\* the results a backend session call can have
SendResults ==
    {"ok", "NanonisConnectionError", "NanonisTimeoutError",
     "NanonisInvalidArgumentError", "NanonisCommandUnavailableError",
     "NanonisProtocolError"}

\* what an operation gave its caller: a return or a raise, with the error
\* summary of a failed connect and the place the error came from
Result(kind, value, origin, summary) ==
    [kind |-> kind, value |-> value, origin |-> origin, summary |-> summary]

NoResult == Result("none", "none", "none", <<>>)

\* the locals of one connect(), close() or call() of a thread
ThreadOp(op, cmd) ==
    [op |-> op, pc |-> "acquire", cmd |-> cmd, attempt |-> 1,
     port_idx |-> 1, cattempt |-> 1, probing |-> None, sid |-> None,
     failures |-> <<>>,
     trace |-> <<>>, ctrace |-> <<>>, result |-> NoResult]

NoOperation == [ThreadOp("none", "none") EXCEPT !.pc = "idle"]

\* the transport after construction with the given retry count
TransportIdle(r) ==
    /\ retry_count = r
    /\ session = None
    /\ active_port = None
    /\ open_sessions = {}
    /\ wire = [sid \in 1..MaxSessions |-> <<>>]
    /\ lock = None
    /\ thr = [t \in Threads |-> NoOperation]

\* a session id the backend has not handed out to an open session
FreshSessions == (1..MaxSessions) \ open_sessions

\* mutant: the summary lists every failure
LastFailures_All(failures) == failures

\* failures[-5:]
LastFailures(failures) ==
    SubSeq(failures, Max(1, Len(failures) - SummaryTail + 1), Len(failures))

\* mutant: one more send than the retry count allows
Attempts_OneMore(r) == r + 2

\* attempts = self._retry_count + 1 of call()
Attempts(r) == r + 1

\* mutant: one more open attempt per port
AttemptsPerPort_OneMore(r) == r + 2

\* attempts_per_port = self._retry_count + 1 of connect()
AttemptsPerPort(r) == r + 1

\* mutant: every error of a command is answered with a reconnect
Retriable_All == SendResults \ {"ok"}

\* the errors call() answers with a reconnect
Retriable == {"NanonisConnectionError", "NanonisTimeoutError"}

\* mutant: the operations do not wait for the lock
LockFree_Unchecked(t) == TRUE

\* `with self._lock` can be entered by thread t (the lock is reentrant)
LockFree(t) == lock \in {None, t}

\* session.close() on a backend session
CloseSession(open, sid) == open \ {sid}

\* mutant: a session whose probe failed is dropped without being closed
CloseFailedProbe_Leak(open, sid) == open

\* connect(): session.close() after a failed attempt
CloseFailedProbe(open, sid) == CloseSession(open, sid)

\* connect() after a failed attempt: the failure is noted and the next
\* attempt or port is taken, or ConnectionError is raised with the summary
ConnectAttemptFailed(o, ev) ==
    LET f == Append(o.failures, [port |-> Ports[o.port_idx],
                                 attempt |-> o.cattempt])
        c == Append(o.ctrace, ev)
    IN  IF o.cattempt < AttemptsPerPort(retry_count)
        THEN [o EXCEPT !.failures = f, !.ctrace = c, !.probing = None,
                       !.pc = "open", !.cattempt = @ + 1]
        ELSE IF o.port_idx < Len(Ports)
        THEN [o EXCEPT !.failures = f, !.ctrace = c, !.probing = None,
                       !.pc = "open", !.cattempt = 1, !.port_idx = @ + 1]
        ELSE [o EXCEPT !.failures = f, !.ctrace = c, !.probing = None,
                       !.pc = "idle",
                       !.result = Result("raised", "NanonisConnectionError",
                                         "connect", LastFailures(f))]

\* ------------------------------------------------------ the trajectory store
MaxRuns == 2

MaxCatalog == 2

MaxSamples == 2

RunNames == {"run-001", "run-002"}

\* the ids a caller may pass: every row id in use and one that names no row
RunIds == 1..(MaxRuns + 1)

CatalogIds == 1..(MaxCatalog + 1)

\* the last store call: the operation, its arguments, the exception it raised
\* ("none" when it returned), the row ids it returned and the number of its
\* INSERT statements that had executed when it ended
StoreCall(op, args, exc, value, executed) == [op |-> op, args |-> args, exc |-> exc, value |-> value, executed |-> executed]

NoStoreCall == StoreCall("none", <<>>, "none", <<>>, 0)

StoreInit ==
    /\ runs = <<>>
    /\ signal_catalog = <<>>
    /\ spec_catalog = <<>>
    /\ signal_samples = <<>>
    /\ spec_samples = <<>>
    /\ store_tx = NoStoreCall

RunNameTaken_Never(run_name) == FALSE

\* SELECT id FROM runs WHERE run_name = ?, and run_name TEXT NOT NULL UNIQUE
RunNameTaken(run_name) == \E i \in 1..Len(runs) : runs[i] = run_name

\* FOREIGN KEY(run_id) REFERENCES runs(id)
RunExists(run_id) == run_id \in 1..Len(runs)

CatalogRowOfRun_AnyRun(catalog, id, run_id) == id \in 1..Len(catalog)

\* FOREIGN KEY(x_id, run_id) REFERENCES x_catalog(id, run_id)
CatalogRowOfRun(catalog, id, run_id) == id \in 1..Len(catalog) /\ catalog[id].run_id = run_id

\* one INSERT statement with its arguments: _to_json_text raises TypeError on
\* a value json cannot encode, before the statement runs; the statement
\* raises IntegrityError on a broken foreign key and adds nothing; otherwise
\* the row is added and its row id is its position
Execute(table, row, json_ok, fk_ok) == IF ~json_ok THEN [rows |-> table, exc |-> "TypeError", rowid |-> 0] ELSE IF ~fk_ok THEN [rows |-> table, exc |-> "IntegrityError", rowid |-> 0] ELSE [rows |-> Append(table, row), exc |-> "none", rowid |-> Len(table) + 1]

WithConnection_NoRollback(before, after, exc) == after

\* `with self._connection:` commits what the block did when it ends normally
\* and rolls back to the tables as they were when an exception leaves it
WithConnection(before, after, exc) == IF exc = "none" THEN after ELSE before

\* the one sample time, catalog label and payload the store calls are driven
\* with when no monitor supplies them
StoreTimes == {0}

StoreLabels == {0}

StorePayloads == {0}

\* a catalog row: its run and its label, segment-<segment_id>
CatalogRow(run_id, segment_id) == [run_id |-> run_id, label |-> segment_id]

SignalRow(run_id, signal_id, dt_s, values) == [run_id |-> run_id, signal_id |-> signal_id, dt_s |-> dt_s, values |-> values]

SpecRow(run_id, spec_id, dt_s, vals) == [run_id |-> run_id, spec_id |-> spec_id, dt_s |-> dt_s, vals |-> vals]

SignalForeignKeys(run_id, signal_id) == RunExists(run_id) /\ CatalogRowOfRun(signal_catalog, signal_id, run_id)

SpecForeignKeys(run_id, spec_id) == RunExists(run_id) /\ CatalogRowOfRun(spec_catalog, spec_id, run_id)

\* insert_sample_pair: the signal INSERT, then the spec INSERT when the first
\* one executed, both inside one `with self._connection:` block; the result
\* is the two tables, the exception, the row ids and the statements executed
SamplePair(signal_row, spec_row, signal_json_ok, spec_json_ok) ==
    LET first == Execute(signal_samples, signal_row, signal_json_ok,
                         SignalForeignKeys(signal_row.run_id,
                                           signal_row.signal_id))
        second == IF first.exc # "none"
                  THEN [rows |-> spec_samples, exc |-> first.exc, rowid |-> 0]
                  ELSE Execute(spec_samples, spec_row, spec_json_ok,
                               SpecForeignKeys(spec_row.run_id,
                                               spec_row.spec_id))
        exc == second.exc
        done == WithConnection(<<signal_samples, spec_samples>>,
                               <<first.rows, second.rows>>, exc)
    IN  [signal_samples |-> done[1], spec_samples |-> done[2], exc |-> exc,
         value |-> IF exc = "none" THEN <<first.rowid, second.rowid>>
                                   ELSE <<>>,
         executed |-> IF first.exc # "none" THEN 0
                      ELSE IF exc # "none" THEN 1 ELSE 2]

\* ----------------------------------------------------- trajectory monitor
MaxTicks == 3

MaxInterval == 2

MaxRotate == 2

MaxPollLatency == 2

MaxStoreLatency == 1

MaxClockStart == 1

\* the labels of the monitored specs in sorted order, and the values a poll
\* may read
SortedSpecLabels == <<"Bias", "Setpoint">>

SpecLabels == {SortedSpecLabels[i] : i \in 1..Len(SortedSpecLabels)}

\* what poll_signals returns
SignalSnapshots == {1}

\* the parameters of the catalogue: label and whether it can be read
ParameterSpecs == {[label |-> "Z", readable |-> TRUE], [label |-> "Bias", readable |-> TRUE], [label |-> "Setpoint", readable |-> TRUE], [label |-> "Pulse", readable |-> FALSE]}

\* the label sets a staged configuration may hold
StagedSignalLabels == {{"Z"}, {"Z", "Pulse"}}

StagedSpecLabels == {SpecLabels, {"Bias", "Drift"}}

RequireMonitorLabel_Lenient(label) == TRUE

\* by_label holds the readable parameters; _require_monitor_label raises
\* ValueError on a label that is not among them
RequireMonitorLabel(label) == \E spec \in ParameterSpecs : spec.readable /\ spec.label = label

LoopDone_Early(completed, count) == completed + 1 >= count

\* `for _ in range(count)` has run count times
LoopDone(completed, count) == completed = count

CompletedOnInterrupt_KeepsCount(completed_iterations, sample_idx) == completed_iterations

\* completed_iterations = max(completed_iterations, runner.sample_idx)
CompletedOnInterrupt(completed_iterations, sample_idx) == IF completed_iterations > sample_idx THEN completed_iterations ELSE sample_idx

PollValues == {0, 1}

\* an empty dict
EmptyDict == [k \in {} |-> 0]

\* dict[key] = value
DictSet(dict, key, value) == [k \in DOMAIN dict \cup {key} |-> IF k = key THEN value ELSE dict[k]]

\* dict.get(key)
DictGet(dict, key) == IF key \in DOMAIN dict THEN dict[key] ELSE None

\* the runner after __init__
Runner(run_id, interval_s, rotate_entries) == [run_id |-> run_id, interval_s |-> interval_s, rotate_entries |-> rotate_entries, sample_idx |-> 0, run_start_monotonic_s |-> None, signal_catalog_ids |-> EmptyDict, spec_catalog_ids |-> EmptyDict, previous_specs_by_label |-> EmptyDict, has_previous_specs_snapshot |-> FALSE]

NoRunner == Runner(None, 0, 0)

\* a run_iterations call: its position, its argument, its locals, the sleep
\* it asked for on the current tick, the clock when its wait ended, the
\* sample_idx it started from and how it ended
Iterations(at, count, base) == [pc |-> at, count |-> count, base |-> base, completed |-> 0, sample_idx |-> 0, signal_id |-> None, spec_id |-> None, dt_s |-> None, slept |-> None, woke |-> None, created |-> FALSE, outcome |-> "none", exc |-> "none", value |-> None]

NoIterations == Iterations("idle", 0, 0)

\* the command: its position, --iterations (None when absent), the staged
\* run name and labels, the run it created, its counters, whether the store handle is
\* open, and the exception that ended it
Command(at, iterations, run_name, signal_labels, spec_labels) == [pc |-> at, iterations |-> iterations, run_name |-> run_name, signal_labels |-> signal_labels, spec_labels |-> spec_labels, run_id |-> None, completed_iterations |-> 0, interrupted |-> FALSE, store_open |-> FALSE, exc |-> "none", reported |-> None]

NoCommand == Command("none", None, "none", {}, {})

\* _compute_delta_value on two numbers
ComputeDeltaValue(old_value, new_value) == new_value - old_value

\* an action_events row
ActionEvent(run_id, dt_s, spec_label, old_value, new_value) == [run_id |-> run_id, dt_s |-> dt_s, action_kind |-> "spec-change", spec_label |-> spec_label, delta_value |-> ComputeDeltaValue(old_value, new_value), old_value |-> old_value, new_value |-> new_value]

Changed_Always(old_value, new_value) == TRUE

\* `if old_value == new_value: continue`
Changed(old_value, new_value) == old_value # new_value

\* the rows _record_spec_change_events inserts for the labels from position
\* i of the sorted labels on
RECURSIVE ChangeEventsFrom(_, _, _, _, _)
ChangeEventsFrom(i, run_id, dt_s, previous, current) ==
    IF i > Len(SortedSpecLabels) THEN <<>>
    ELSE LET spec_label == SortedSpecLabels[i]
             old_value == DictGet(previous, spec_label)
             new_value == DictGet(current, spec_label)
             rest == ChangeEventsFrom(i + 1, run_id, dt_s, previous, current)
         IN  IF Changed(old_value, new_value)
             THEN <<ActionEvent(run_id, dt_s, spec_label, old_value,
                                new_value)>> \o rest
             ELSE rest

\* the rows _record_spec_change_events inserts on a tick
RecordSpecChangeEvents(r, dt_s, spec_values) == IF ~r.has_previous_specs_snapshot THEN <<>> ELSE ChangeEventsFrom(1, r.run_id, dt_s, r.previous_specs_by_label, spec_values)

ScheduledTime_FromNow(r, t0, sample_idx) == clock + r.interval_s

\* scheduled_time_s = run_start_monotonic_s + sample_idx * interval_s
ScheduledTime(r, t0, sample_idx) == t0 + sample_idx * r.interval_s

SegmentId_Ceiling(r, sample_idx) == (sample_idx + r.rotate_entries - 1) \div r.rotate_entries

\* segment_id = sample_idx // rotate_entries
SegmentId(r, sample_idx) == sample_idx \div r.rotate_entries

\* _elapsed_seconds: max(0.0, now_s - run_start_monotonic_s)
ElapsedSeconds(now_s, t0) == IF now_s - t0 > 0 THEN now_s - t0 ELSE 0

MonitorIdle ==
    /\ clock = 0
    /\ runner = NoRunner
    /\ tick = NoIterations
    /\ action_events = <<>>
    /\ monitor_errors = <<>>
    /\ cli = NoCommand

\* ------------------------------------------------ callers of the policy
NumCallers == 2

MaxHeld == 2

MaxPlans == 2

Callers == 1..NumCallers

\* the locals of the execute_plan call of one caller thread: its position,
\* the plan it runs, the index of the step to send, the time its sleep ends
\* and the number of plan_scalar_write calls the thread has made
CallerState(at, plan, idx, wake, made) == [pc |-> at, plan |-> plan, idx |-> idx, wake |-> wake, made |-> made]

\* the fields of a returned WritePlan that execute_plan reads
HeldPlan(channel, steps, interval_s, is_dry_run) == [channel |-> channel, steps |-> steps, interval_s |-> interval_s, dry_run |-> is_dry_run]

NoPlan == HeldPlan("unknown", <<>>, 0, FALSE)

CallersIdle ==
    /\ caller = [c \in Callers |-> CallerState("idle", NoPlan, 1, 0, 0)]
    /\ plans_held = [c \in Callers |-> <<>>]
    /\ live_writes = <<>>

\* ------------------------------------------- parameter reads of the facade
NumReaders == 2

MaxReads == 3

Readers == 1..NumReaders

\* the parameters read: two whose getter records state transitions and one
\* whose getter does not
ReadParameters == {"bias_v", "zctrl_on", "zctrl_z_m"}

\* the getters that call _record_state_transition, by their state key
StateKeys == {"bias_v", "zctrl_on"}

\* what the controller answers: floats in units of 1e-13, ints for the
\* controller switch
RawValues(parameter) == IF parameter = "zctrl_on" THEN {0, 1, 2} ELSE {0, 4, 10}

\* the value the getter returns: float(value), or bool(int(value)) as 0 / 1
Returned(parameter, raw) == IF parameter = "zctrl_on" THEN (IF raw # 0 THEN 1 ELSE 0) ELSE raw

\* round(value, 12) of a float held in units of 1e-13
Round12(value) == HalfEven(value, 10) * 10

\* the value the getter hands to _record_state_transition
Recorded(parameter, value) == IF parameter = "bias_v" THEN Round12(value) ELSE value

\* the getter call of one reader thread
ReaderState(at, state_key, value, previous) == [pc |-> at, state_key |-> state_key, value |-> value, previous |-> previous]

ReaderIdle == ReaderState("idle", "none", None, None)

ReadsIdle ==
    /\ last_state_values = [k \in StateKeys |-> None]
    /\ trajectory_events = <<>>
    /\ reads = <<>>
    /\ reader = [t \in Readers |-> ReaderIdle]

\* ----------------------------------------------------- trajectory journal
\* queue_size of the journal
QueueSize == 1

\* max_events_per_file of the journal
MaxEventsPerFile == 2

NumEmitters == 2

\* the emit() calls of one emitter thread
MaxEmits == 1

\* the _write_event calls that raise
MaxWriteErrors == 1

\* the thread that calls start() and close()
OwnerThread == 0

JournalThreads == 0..NumEmitters

\* the events of start() and close() and those of the emitters
MaxEvents == 2 + NumEmitters * MaxEmits

\* an emit() call: its position, its event and the calls the thread made
EmitState(at, event, made) == [pc |-> at, event |-> event, made |-> made]

\* the writer thread: its position in _run and the event it took
WriterState(at, event) == [pc |-> at, event |-> event]

\* TrajectoryJournal.__init__
JournalIdle ==
    /\ journal = [submitted |-> 0, written |-> 0, dropped |-> 0,
                  last_error |-> "None", segment_index |-> 0,
                  segment_count |-> 0, handle |-> FALSE, stop |-> FALSE,
                  thread |-> "none", errors |-> 0]
    /\ event_queue = <<>>
    /\ segments = <<>>
    /\ emitter = [t \in JournalThreads |-> EmitState("idle", 0, 0)]
    /\ writer = WriterState("none", 0)
    /\ owner = "new"
    /\ write_raised = {}
    /\ accepted_before_close = {}

\* ----------------------------------------------------------- parameter file
\* SafetySpec, of the fields the limits are made of
SafetySpec(min_value, max_value, max_step, cooldown_s) == [min_value |-> min_value, max_value |-> max_value, max_step |-> max_step, cooldown_s |-> cooldown_s]

\* ValidatorSpec, of its bounds; kind "none" stands for no validator
ValidatorSpec(kind, min_value, max_value) == [kind |-> kind, min_value |-> min_value, max_value |-> max_value]

\* ParameterSpec: get_cmd and set_cmd by their presence, safety None or a
\* SafetySpec held in a one-element sequence
ParameterSpec(get_cmd, set_cmd, vals, safety) == [get_cmd |-> get_cmd, set_cmd |-> set_cmd, vals |-> vals, safety |-> safety]

\* what the load hands back: the spec, or the ValueError raised
LoadResult(ok, error, spec) == [ok |-> ok, error |-> error, spec |-> spec]

NoSpec == ParameterSpec(FALSE, FALSE, ValidatorSpec("none", None, None), <<>>)

NotLoaded == LoadResult(FALSE, "", NoSpec)

\* a parameter mapping of the file: a key that is absent is None
ParameterMapping(get_cmd, set_cmd, vals, safety) == [get_cmd |-> get_cmd, set_cmd |-> set_cmd, vals |-> vals, safety |-> safety]

\* a safety block: the kind tells a mapping from anything else
SafetyBlock(kind, min_value, max_value, max_step, cooldown_s, require_confirmation) == [kind |-> kind, min |-> min_value, max |-> max_value, max_step |-> max_step, cooldown_s |-> cooldown_s, require_confirmation |-> require_confirmation]

\* a vals block
ValsBlock(kind, min_value, max_value) == [kind |-> kind, min |-> min_value, max |-> max_value]

CatalogueIdle ==
    /\ document = ParameterMapping("absent", "absent", ValsBlock("absent", None, None), SafetyBlock("absent", None, None, None, None, FALSE))
    /\ load_pc = "idle"
    /\ loaded = NotLoaded

FurtherIdle ==
    /\ CallersIdle
    /\ ReadsIdle
    /\ JournalIdle
    /\ CatalogueIdle

\* ---------------------------------------------------------------- actions
Init ==
    /\ allow_writes \in BOOLEAN
    /\ dry_run \in BOOLEAN
    /\ last_write_at = [c \in AllChannels |-> None]
    /\ now = 0
    /\ planned = <<>>
    /\ pc = "idle"
    /\ exec = NoExecution
    /\ calls = <<>>
    /\ report = <<>>
    /\ InstrumentInit
    /\ TransportIdle(DefaultRetryCount)
    /\ StoreInit
    /\ MonitorIdle
    /\ FurtherIdle

\* the caller drops what the previous call returned when it makes a new call
Forget ==
    /\ exec' = NoExecution
    /\ calls' = <<>>
    /\ report' = <<>>

\* WritePolicy.plan_scalar_write with inputs drawn from V
PlanScalarWriteCall(V) ==
    /\ pc = "idle"
    /\ \E channel \in Channels, current \in V, target \in V,
          confirmed \in BOOLEAN, approved \in BOOLEAN :
          /\ confirmed => ~approved
          /\ LET req == Request("scalar", channel, current, target,
                                confirmed, approved, None)
             IN  planned' = <<[req |-> req, res |-> PlanOutcome(req)]>>
    /\ Forget
    /\ UNCHANGED <<allow_writes, dry_run, last_write_at, now, pc>>
    /\ UNCHANGED beyondPolicy

\* plan_scalar_write_single_step with inputs drawn from V
PlanSingleStepCall(V) ==
    /\ pc = "idle"
    /\ \E channel \in Channels, current \in V, target \in V,
          interval_arg \in IntervalArgs :
          LET req == Request("single", channel, current, target, FALSE,
                             FALSE, interval_arg)
          IN  planned' = <<[req |-> req, res |-> PlanOutcome(req)]>>
    /\ Forget
    /\ UNCHANGED <<allow_writes, dry_run, last_write_at, now, pc>>
    /\ UNCHANGED beyondPolicy

\* mutant: execute_plan consults the policy's flag instead of the plan's
IsDryRun_PolicyFlag(p) == dry_run

\* the dry-run test of execute_plan
IsDryRun(p) == p.res.dry_run

\* execute_plan on the last returned plan, up to the first send_step
ExecutePlanBegin ==
    /\ pc = "idle"
    /\ planned # <<>>
    /\ planned[1].res.ok
    /\ LET p == planned[1] IN
       IF IsDryRun(p)
       THEN /\ report' = <<DryRunReport(p)>>
            /\ exec' = Execution(p)
            /\ calls' = <<>>
            /\ pc' = "idle"
       ELSE /\ report' = <<>>
            /\ exec' = Execution(p)
            /\ calls' = <<>>
            /\ pc' = IF Len(p.res.steps) = 0 THEN "record" ELSE "send"
    /\ planned' = <<>>
    /\ UNCHANGED <<allow_writes, dry_run, last_write_at, now>>
    /\ UNCHANGED beyondPolicy

\* mutant: the loop does not sleep between steps
ExecuteSendStep_NoSleep ==
    /\ pc = "send"
    /\ calls' = Append(calls, [op |-> "send_step", arg |-> exec.steps[exec.idx]])
    /\ IF exec.idx < Len(exec.steps)
       THEN /\ pc' = "send"
            /\ exec' = [exec EXCEPT !.applied = @ + 1, !.idx = @ + 1]
       ELSE /\ pc' = "record"
            /\ exec' = [exec EXCEPT !.applied = @ + 1]
    /\ UNCHANGED <<allow_writes, dry_run, last_write_at, now, planned, report>>
    /\ UNCHANGED beyondPolicy

\* one iteration of the loop: send_step(step_value) returns
ExecuteSendStep ==
    /\ pc = "send"
    /\ calls' = Append(calls, [op |-> "send_step", arg |-> exec.steps[exec.idx]])
    /\ IF exec.idx < Len(exec.steps) /\ exec.interval_s > 0
       THEN /\ pc' = "sleep"
            /\ exec' = [exec EXCEPT !.applied = @ + 1]
       ELSE IF exec.idx < Len(exec.steps)
       THEN /\ pc' = "send"
            /\ exec' = [exec EXCEPT !.applied = @ + 1, !.idx = @ + 1]
       ELSE /\ pc' = "record"
            /\ exec' = [exec EXCEPT !.applied = @ + 1]
    /\ UNCHANGED <<allow_writes, dry_run, last_write_at, now, planned, report>>
    /\ UNCHANGED beyondPolicy

\* send_step raises: the exception leaves execute_plan
ExecuteSendStepRaises ==
    /\ pc = "send"
    /\ calls' = Append(calls, [op |-> "send_step_raised",
                               arg |-> exec.steps[exec.idx]])
    /\ exec' = [exec EXCEPT !.raised = TRUE]
    /\ pc' = "idle"
    /\ UNCHANGED <<allow_writes, dry_run, last_write_at, now, planned, report>>
    /\ UNCHANGED beyondPolicy

\* sleep(plan.interval_s) between two steps
ExecuteSleep ==
    /\ pc = "sleep"
    /\ calls' = Append(calls, [op |-> "sleep", arg |-> exec.interval_s])
    /\ exec' = [exec EXCEPT !.idx = @ + 1]
    /\ pc' = "send"
    /\ UNCHANGED <<allow_writes, dry_run, last_write_at, now, planned, report>>
    /\ UNCHANGED beyondPolicy

\* after the loop: record_write and the report
ExecuteFinish ==
    /\ pc = "record"
    /\ last_write_at' = RecordWrite(last_write_at, exec.channel, now)
    /\ calls' = Append(calls, [op |-> "record_write", arg |-> now])
    /\ report' = <<LiveReport(exec)>>
    /\ pc' = "idle"
    /\ UNCHANGED <<allow_writes, dry_run, now, planned, exec>>
    /\ UNCHANGED beyondPolicy

\* WritePolicy.record_write called by an upstream caller
RecordWriteCall ==
    /\ pc = "idle"
    /\ \E channel \in LimitChannels :
          last_write_at' = RecordWrite(last_write_at, channel, now)
    /\ Forget
    /\ UNCHANGED <<allow_writes, dry_run, now, planned, pc>>
    /\ UNCHANGED beyondPolicy

\* the monotonic clock advances to the next float
Tick ==
    /\ \E t \in Times :
          /\ t > now
          /\ \A u \in Times : u > now => t <= u
          /\ now' = t
    /\ UNCHANGED <<allow_writes, dry_run, last_write_at, planned, pc, exec,
                   calls, report>>
    /\ UNCHANGED beyondPolicy

\* the owner of the policy assigns its dry_run field
SetDryRun ==
    /\ pc = "idle"
    /\ dry_run' = ~dry_run
    /\ Forget
    /\ UNCHANGED <<allow_writes, last_write_at, now, planned, pc>>
    /\ UNCHANGED beyondPolicy

Next ==
    \/ PlanScalarWriteCall(ReqVals)
    \/ PlanSingleStepCall(ReqVals)
    \/ ExecutePlanBegin
    \/ ExecuteSendStep
    \/ ExecuteSendStepRaises
    \/ ExecuteSleep
    \/ ExecuteFinish
    \/ RecordWriteCall
    \/ Tick
    \/ SetDryRun

Spec == Init /\ [][Next]_vars

\* planning alone, over every float of the input range
InitPlan ==
    /\ allow_writes \in BOOLEAN
    /\ dry_run \in BOOLEAN
    /\ now \in Times
    /\ last_write_at \in {[c \in AllChannels |-> None],
                          RecordWrite([c \in AllChannels |-> None],
                                      "setpoint_a", 0)}
    /\ planned = <<>>
    /\ pc = "idle"
    /\ exec = NoExecution
    /\ calls = <<>>
    /\ report = <<>>
    /\ InstrumentInit
    /\ TransportIdle(DefaultRetryCount)
    /\ StoreInit
    /\ MonitorIdle
    /\ FurtherIdle

NextPlan ==
    \/ (planned = <<>> /\ PlanScalarWriteCall(FloatVals))
    \/ (planned = <<>> /\ PlanSingleStepCall(FloatVals))

SpecPlan == InitPlan /\ [][NextPlan]_vars

\* ------------------------------------------ guarded writes of the facade
\* the operation name a guarded scalar write is audited under
Operation(channel) == IF channel = "bias_v" THEN "bias_v_set" ELSE "setpoint_a_set"

\* _run_guarded_scalar_write up to the call of execute_plan: the planner
\* reads the current value from the controller and asks the policy for a plan
GuardedScalarWriteBegin ==
    /\ pc = "idle"
    /\ guard.phase \in {"idle", "done"}
    /\ Len(write_audit_log) < MaxAudit
    /\ \E channel \in LimitChannels, target \in ReqVals, current \in ReqVals,
          confirmed \in BOOLEAN, read_ok \in BOOLEAN :
          LET req == Request("scalar", channel, current, target, confirmed,
                             FALSE, None)
              res == PlanOutcome(req)
              exc == IF read_ok THEN res.exc ELSE "NanonisConnectionError"
          IN  IF read_ok /\ res.ok
              THEN /\ planned' = <<[req |-> req, res |-> res]>>
                   /\ guard' = GuardedCall("scalar", "execute", "none",
                                           "none", "none")
                   /\ UNCHANGED write_audit_log
              ELSE /\ planned' = <<>>
                   /\ guard' = GuardedCall("scalar", "done", "raised",
                                           "planning", exc)
                   /\ write_audit_log' = AppendWriteAudit(write_audit_log,
                          AuditEntry(Operation(channel), "blocked", dry_run,
                                     exc, None, None))
    /\ Forget
    /\ UNCHANGED <<allow_writes, dry_run, last_write_at, now, pc>>
    /\ UNCHANGED beyondInstrument

\* the entry _run_guarded_scalar_write appends when execute_plan raised: its
\* metadata holds attempted_steps and target_value only
FailedScalarEntry(e) ==
    AuditEntry(Operation(e.channel), "failed", FALSE, "NanonisConnectionError",
               Len(e.steps), None)

\* _run_guarded_scalar_write after execute_plan returned or raised
GuardedScalarWriteAudit ==
    /\ guard.op = "scalar"
    /\ guard.phase = "execute"
    /\ pc = "idle"
    /\ planned = <<>>
    /\ IF exec.raised
       THEN /\ write_audit_log' =
                   AppendWriteAudit(write_audit_log, FailedScalarEntry(exec))
            /\ guard' = [guard EXCEPT !.phase = "done", !.outcome = "raised",
                                      !.raised_in = "execution",
                                      !.exc = "NanonisConnectionError"]
       ELSE /\ write_audit_log' = AppendWriteAudit(write_audit_log,
                   AuditEntry(Operation(exec.channel),
                              IF report[1].dry_run THEN "dry_run" ELSE "applied",
                              report[1].dry_run, "none",
                              report[1].attempted_steps,
                              report[1].applied_steps))
            /\ guard' = [guard EXCEPT !.phase = "done", !.outcome = "returned"]
    /\ UNCHANGED <<allow_writes, dry_run, last_write_at, now, planned, pc,
                   exec, calls, report>>
    /\ UNCHANGED beyondInstrument

\* set_scan_frame_guarded up to the first Scan_FrameSet: the current frame
\* is read, the five components are planned, a dry run is reported at once
ScanFrameWriteBegin ==
    /\ pc = "idle"
    /\ guard.phase \in {"idle", "done"}
    /\ Len(write_audit_log) < MaxAudit
    /\ \E target \in FrameVals, current \in FrameVals, confirmed \in BOOLEAN,
          read_ok \in BOOLEAN :
          \E plan \in {PlanScanFrameSet(allow_writes, dry_run, last_write_at,
                                        current, target, confirmed, now)} :
          LET exc == IF read_ok THEN plan.exc ELSE "NanonisConnectionError"
          IN  IF ~(read_ok /\ plan.ok)
              THEN /\ guard' = GuardedCall("frame", "done", "raised",
                                           "planning", exc)
                   /\ write_audit_log' = AppendWriteAudit(write_audit_log,
                          AuditEntry("scan_frame_set", "blocked", dry_run,
                                     exc, None, None))
              ELSE IF plan.dry_run
              THEN /\ guard' = [GuardedCall("frame", "done", "returned",
                                            "none", "none")
                                   EXCEPT !.steps = plan.steps,
                                          !.interval_s = plan.interval_s]
                   /\ write_audit_log' = AppendWriteAudit(write_audit_log,
                          AuditEntry("scan_frame_set", "dry_run", TRUE,
                                     "none", Len(plan.steps), 0))
              ELSE /\ guard' = [GuardedCall("frame", "send", "none", "none",
                                            "none")
                                   EXCEPT !.steps = plan.steps,
                                          !.interval_s = plan.interval_s]
                   /\ UNCHANGED write_audit_log
    /\ Forget
    /\ UNCHANGED <<allow_writes, dry_run, last_write_at, now, planned, pc>>
    /\ UNCHANGED beyondInstrument

\* one iteration of the frame loop: Scan_FrameSet returns
ScanFrameSendStep ==
    /\ guard.op = "frame"
    /\ guard.phase = "send"
    /\ calls' = Append(calls, [op |-> "Scan_FrameSet",
                               arg |-> guard.steps[guard.idx]])
    /\ guard' = IF guard.idx < Len(guard.steps) /\ guard.interval_s > 0
                THEN [guard EXCEPT !.applied = @ + 1, !.phase = "sleep"]
                ELSE IF guard.idx < Len(guard.steps)
                THEN [guard EXCEPT !.applied = @ + 1, !.idx = @ + 1]
                ELSE [guard EXCEPT !.applied = @ + 1, !.phase = "record"]
    /\ UNCHANGED <<allow_writes, dry_run, last_write_at, now, planned, pc,
                   exec, report, write_audit_log>>
    /\ UNCHANGED beyondInstrument

\* Scan_FrameSet raises: the failure is audited and re-raised
ScanFrameSendStepRaises ==
    /\ guard.op = "frame"
    /\ guard.phase = "send"
    /\ calls' = Append(calls, [op |-> "Scan_FrameSet_raised",
                               arg |-> guard.steps[guard.idx]])
    /\ write_audit_log' = AppendWriteAudit(write_audit_log,
           AuditEntry("scan_frame_set", "failed", FALSE,
                      "NanonisConnectionError", Len(guard.steps),
                      guard.applied))
    /\ guard' = [guard EXCEPT !.phase = "done", !.outcome = "raised",
                              !.raised_in = "execution",
                              !.exc = "NanonisConnectionError"]
    /\ UNCHANGED <<allow_writes, dry_run, last_write_at, now, planned, pc,
                   exec, report>>
    /\ UNCHANGED beyondInstrument

\* time.sleep(plan.interval_s) between two frame steps
ScanFrameSleep ==
    /\ guard.op = "frame"
    /\ guard.phase = "sleep"
    /\ calls' = Append(calls, [op |-> "sleep", arg |-> guard.interval_s])
    /\ guard' = [guard EXCEPT !.idx = @ + 1, !.phase = "send"]
    /\ UNCHANGED <<allow_writes, dry_run, last_write_at, now, planned, pc,
                   exec, report, write_audit_log>>
    /\ UNCHANGED beyondInstrument

\* mutant: only the first component channel is recorded
RecordWrites_FirstOnly(lw, n, at_time_s) == RecordWrite(lw, FrameChannels[1], at_time_s)

RECURSIVE RecordWrites(_, _, _)
\* record_write for the first n component channels with one timestamp
RecordWrites(lw, n, at_time_s) ==
    IF n = 0 THEN lw
    ELSE RecordWrite(RecordWrites(lw, n - 1, at_time_s), FrameChannels[n],
                     at_time_s)

\* after the frame loop: the component writes are recorded, the frame is
\* read back and the write is audited as applied
ScanFrameFinish ==
    /\ guard.op = "frame"
    /\ guard.phase = "record"
    /\ last_write_at' = RecordWrites(last_write_at, Len(FrameChannels), now)
    /\ write_audit_log' = AppendWriteAudit(write_audit_log,
           AuditEntry("scan_frame_set", "applied", FALSE, "none",
                      Len(guard.steps), guard.applied))
    /\ guard' = [guard EXCEPT !.phase = "done", !.outcome = "returned"]
    /\ UNCHANGED <<allow_writes, dry_run, now, planned, pc, exec, calls,
                   report>>
    /\ UNCHANGED beyondInstrument

\* after the frame loop: the component writes are recorded and the read-back
\* of the frame raises, which leaves set_scan_frame_guarded at once
ScanFrameReadbackRaises ==
    /\ guard.op = "frame"
    /\ guard.phase = "record"
    /\ last_write_at' = RecordWrites(last_write_at, Len(FrameChannels), now)
    /\ guard' = [guard EXCEPT !.phase = "done", !.outcome = "raised",
                              !.raised_in = "readback",
                              !.exc = "NanonisConnectionError"]
    /\ UNCHANGED <<allow_writes, dry_run, now, planned, pc, exec, calls,
                   report, write_audit_log>>
    /\ UNCHANGED beyondInstrument

NextGuard ==
    \/ GuardedScalarWriteBegin
    \/ ExecutePlanBegin
    \/ ExecuteSendStep
    \/ ExecuteSendStepRaises
    \/ ExecuteSleep
    \/ ExecuteFinish
    \/ GuardedScalarWriteAudit
    \/ ScanFrameWriteBegin
    \/ ScanFrameSendStep
    \/ ScanFrameSendStepRaises
    \/ ScanFrameSleep
    \/ ScanFrameFinish
    \/ ScanFrameReadbackRaises
    \/ Tick

SpecGuard == Init /\ [][NextGuard]_vars

\* ------------------------------------------- operations of the transport
\* thread t enters the lock with the locals o: the callers of the operations
\* that have ended keep their results no longer
Entered(t, o) ==
    [u \in Threads |->
        IF u = t THEN o
        ELSE IF thr[u].pc = "idle" THEN NoOperation
        ELSE thr[u]]

\* a caller thread starts connect(), close() or call(command)
Invoke(t) ==
    /\ thr[t].pc = "idle"
    /\ \E op \in {"connect", "close", "call"}, cmd \in Commands :
          /\ op # "call" => cmd = CHOOSE c \in Commands : TRUE
          /\ thr' = [thr EXCEPT ![t] = ThreadOp(op, cmd)]
    /\ UNCHANGED <<retry_count, session, active_port, open_sessions, wire,
                   lock>>
    /\ UNCHANGED <<policyVars, instrumentVars, storeVars, monitorVars,
                   furtherVars>>

\* close(): under the lock the active session is closed and forgotten
Close(t) ==
    /\ thr[t].op = "close"
    /\ thr[t].pc = "acquire"
    /\ LockFree(t)
    /\ open_sessions' = IF session # None
                        THEN CloseSession(open_sessions, session)
                        ELSE open_sessions
    /\ session' = None
    /\ active_port' = None
    /\ thr' = Entered(t, [thr[t] EXCEPT
                              !.pc = "idle",
                              !.trace = IF session # None
                                        THEN <<[ev |-> "close",
                                                sid |-> session,
                                                res |-> "ok"]>>
                                        ELSE <<>>,
                              !.result = Result("returned", "none", "close",
                                                <<>>)])
    /\ UNCHANGED <<retry_count, wire, lock>>
    /\ UNCHANGED <<policyVars, instrumentVars, storeVars, monitorVars,
                   furtherVars>>

\* connect() enters the lock: a connected transport returns at once
ConnectEnter(t) ==
    /\ thr[t].op = "connect"
    /\ thr[t].pc = "acquire"
    /\ LockFree(t)
    /\ IF session # None
       THEN /\ thr' = Entered(t, [thr[t] EXCEPT
                                      !.pc = "idle",
                                      !.result = Result("returned", "none",
                                                        "connect", <<>>)])
            /\ UNCHANGED lock
       ELSE /\ thr' = Entered(t, [thr[t] EXCEPT !.pc = "open"])
            /\ lock' = t
    /\ UNCHANGED <<retry_count, session, active_port, open_sessions, wire>>
    /\ UNCHANGED <<policyVars, instrumentVars, storeVars, monitorVars,
                   furtherVars>>

\* call() enters the lock: a disconnected transport connects first
CallEnter(t) ==
    /\ thr[t].op = "call"
    /\ thr[t].pc = "acquire"
    /\ LockFree(t)
    /\ lock' = t
    /\ thr' = Entered(t, [thr[t] EXCEPT
                              !.pc = IF session = None THEN "open"
                                     ELSE "send_ready"])
    /\ UNCHANGED <<retry_count, session, active_port, open_sessions, wire>>
    /\ UNCHANGED <<policyVars, instrumentVars, storeVars, monitorVars,
                   furtherVars>>

\* one attempt of connect(): adapter.open_session returns a session, whose
\* probe is then in flight, or raises
OpenSession(t) ==
    /\ thr[t].pc = "open"
    /\ LET o == thr[t]
           port == Ports[o.port_idx]
       IN  \E ok \in BOOLEAN :
              IF ok /\ FreshSessions # {}
              THEN LET sid == CHOOSE i \in FreshSessions :
                                  \A j \in FreshSessions : i <= j
                   IN  /\ open_sessions' = open_sessions \cup {sid}
                       /\ thr' = [thr EXCEPT
                              ![t].pc = "probe", ![t].probing = sid,
                              ![t].ctrace = Append(o.ctrace,
                                  [ev |-> "open", port |-> port,
                                   attempt |-> o.cattempt, sid |-> sid])]
                       /\ UNCHANGED lock
              ELSE LET n == ConnectAttemptFailed(o,
                                [ev |-> "open_failed", port |-> port,
                                 attempt |-> o.cattempt, sid |-> None])
                   IN  /\ thr' = [thr EXCEPT ![t] = n]
                       /\ lock' = IF n.pc = "idle" THEN None ELSE lock
                       /\ UNCHANGED open_sessions
    /\ UNCHANGED <<retry_count, session, active_port, wire>>
    /\ UNCHANGED <<policyVars, instrumentVars, storeVars, monitorVars,
                   furtherVars>>

\* the probe command returns: on success the session becomes the active one
\* and connect() returns, otherwise the session is closed and the attempt
\* counts as failed
ProbeReturn(t) ==
    /\ thr[t].pc = "probe"
    /\ LET o == thr[t]
           port == Ports[o.port_idx]
           ev(name) == [ev |-> name, port |-> port, attempt |-> o.cattempt,
                        sid |-> o.probing]
       IN  \E ok \in BOOLEAN :
              IF ok
              THEN /\ session' = o.probing
                   /\ active_port' = port
                   /\ UNCHANGED open_sessions
                   /\ IF o.op = "call"
                      THEN /\ thr' = [thr EXCEPT
                                 ![t].pc = "send_ready", ![t].probing = None,
                                 ![t].ctrace = Append(o.ctrace, ev("probe")),
                                 ![t].trace = Append(o.trace,
                                     [ev |-> "connect", sid |-> o.probing,
                                      res |-> "ok"])]
                           /\ UNCHANGED lock
                      ELSE /\ thr' = [thr EXCEPT
                                 ![t].pc = "idle", ![t].probing = None,
                                 ![t].ctrace = Append(o.ctrace, ev("probe")),
                                 ![t].result = Result("returned", "none",
                                                      "connect", <<>>)]
                           /\ lock' = None
              ELSE LET n == ConnectAttemptFailed(o, ev("probe_failed"))
                   IN  /\ open_sessions' =
                              CloseFailedProbe(open_sessions, o.probing)
                       /\ thr' = [thr EXCEPT ![t] = n]
                       /\ lock' = IF n.pc = "idle" THEN None ELSE lock
                       /\ UNCHANGED <<session, active_port>>
    /\ UNCHANGED <<retry_count, wire>>
    /\ UNCHANGED <<policyVars, instrumentVars, storeVars, monitorVars,
                   furtherVars>>

\* call(): self._session.call(command) is sent on the active session
SendStart(t) ==
    /\ thr[t].pc = "send_ready"
    /\ session # None
    /\ wire' = [wire EXCEPT ![session] = Append(@, thr[t].cmd)]
    /\ thr' = [thr EXCEPT ![t].pc = "send", ![t].sid = session]
    /\ UNCHANGED <<retry_count, session, active_port, open_sessions, lock>>
    /\ UNCHANGED <<policyVars, instrumentVars, storeVars, monitorVars,
                   furtherVars>>

RaiseToCaller_Closes ==
    /\ session' = None
    /\ active_port' = None
    /\ open_sessions' = IF session # None
                        THEN CloseSession(open_sessions, session)
                        ELSE open_sessions

\* call() re-raises the error of the command: the session, the active port
\* and the backend sessions are not touched
RaiseToCaller == UNCHANGED <<session, active_port, open_sessions>>

\* the session call returns a response or raises: a response is returned to
\* the caller, a connection or timeout error before the last attempt closes
\* the session and reconnects, every other error is raised
SendReturn(t) ==
    /\ thr[t].pc = "send"
    /\ wire[thr[t].sid] # <<>>
    /\ LET o == thr[t]
           answered == Head(wire[o.sid])
           sent(res) == Append(o.trace, [ev |-> "send", sid |-> o.sid,
                                         res |-> res])
       IN  \E res \in SendResults :
              /\ wire' = [wire EXCEPT ![o.sid] = Tail(@)]
              /\ IF res = "ok"
                 THEN /\ thr' = [thr EXCEPT
                            ![t].pc = "idle", ![t].trace = sent(res),
                            ![t].result = Result("returned", answered,
                                                 "command", <<>>)]
                      /\ lock' = None
                      /\ UNCHANGED <<session, active_port, open_sessions>>
                 ELSE IF res \in Retriable /\ o.attempt < Attempts(retry_count)
                 THEN /\ open_sessions' =
                             IF session # None
                             THEN CloseSession(open_sessions, session)
                             ELSE open_sessions
                      /\ session' = None
                      /\ active_port' = None
                      /\ thr' = [thr EXCEPT
                            ![t].pc = "open", ![t].attempt = @ + 1,
                            ![t].port_idx = 1, ![t].cattempt = 1,
                            ![t].failures = <<>>, ![t].ctrace = <<>>,
                            ![t].trace = Append(sent(res),
                                [ev |-> "close", sid |-> session,
                                 res |-> "ok"])]
                      /\ UNCHANGED lock
                 ELSE /\ thr' = [thr EXCEPT
                            ![t].pc = "idle", ![t].trace = sent(res),
                            ![t].result = Result("raised", res, "command",
                                                 <<>>)]
                      /\ lock' = None
                      /\ RaiseToCaller
    /\ UNCHANGED retry_count
    /\ UNCHANGED <<policyVars, instrumentVars, storeVars, monitorVars,
                   furtherVars>>

TransportInit == \E r \in 0..MaxRetry : TransportIdle(r)

InitTransport ==
    /\ allow_writes = FALSE
    /\ dry_run = TRUE
    /\ last_write_at = [c \in AllChannels |-> None]
    /\ now = 0
    /\ planned = <<>>
    /\ pc = "idle"
    /\ exec = NoExecution
    /\ calls = <<>>
    /\ report = <<>>
    /\ InstrumentInit
    /\ TransportInit
    /\ StoreInit
    /\ MonitorIdle
    /\ FurtherIdle

NextTransport ==
    \/ \E t \in Threads : Invoke(t)
    \/ \E t \in Threads : Close(t)
    \/ \E t \in Threads : ConnectEnter(t)
    \/ \E t \in Threads : CallEnter(t)
    \/ \E t \in Threads : OpenSession(t)
    \/ \E t \in Threads : ProbeReturn(t)
    \/ \E t \in Threads : SendStart(t)
    \/ \E t \in Threads : SendReturn(t)

SpecTransport == InitTransport /\ [][NextTransport]_vars

\* ------------------------------------------------- trajectory store calls
beyondStore == <<policyVars, instrumentVars, transportVars, monitorVars, furtherVars>>

CreateRun ==
    \E run_name \in RunNames :
        /\ Len(runs) < MaxRuns
        /\ IF RunNameTaken(run_name)
           THEN /\ store_tx' = StoreCall("create_run", <<run_name>>,
                                         "ValueError", <<>>, 0)
                /\ UNCHANGED runs
           ELSE /\ runs' = Append(runs, run_name)
                /\ store_tx' = StoreCall("create_run", <<run_name>>, "none",
                                         <<Len(runs) + 1>>, 1)
        /\ UNCHANGED <<signal_catalog, spec_catalog, signal_samples,
                       spec_samples>>
        /\ UNCHANGED beyondStore

InsertSignalCatalog ==
    \E run_id \in RunIds, label \in StoreLabels :
        LET ins == Execute(signal_catalog, CatalogRow(run_id, label), TRUE,
                           RunExists(run_id))
        IN  /\ Len(signal_catalog) < MaxCatalog
            /\ signal_catalog' =
                   WithConnection(signal_catalog, ins.rows, ins.exc)
            /\ store_tx' = StoreCall("insert_signal_catalog", <<run_id>>, ins.exc,
                   IF ins.exc = "none" THEN <<ins.rowid>> ELSE <<>>,
                   IF ins.exc = "none" THEN 1 ELSE 0)
            /\ UNCHANGED <<runs, spec_catalog, signal_samples, spec_samples>>
            /\ UNCHANGED beyondStore

InsertSpecCatalog ==
    \E run_id \in RunIds, label \in StoreLabels :
        LET ins == Execute(spec_catalog, CatalogRow(run_id, label), TRUE,
                           RunExists(run_id))
        IN  /\ Len(spec_catalog) < MaxCatalog
            /\ spec_catalog' = WithConnection(spec_catalog, ins.rows, ins.exc)
            /\ store_tx' = StoreCall("insert_spec_catalog", <<run_id>>, ins.exc,
                   IF ins.exc = "none" THEN <<ins.rowid>> ELSE <<>>,
                   IF ins.exc = "none" THEN 1 ELSE 0)
            /\ UNCHANGED <<runs, signal_catalog, signal_samples,
                           spec_samples>>
            /\ UNCHANGED beyondStore

InsertSignalSample(times) ==
    \E run_id \in RunIds, signal_id \in CatalogIds, dt_s \in times,
       payload \in StorePayloads, json_ok \in BOOLEAN :
        LET ins == Execute(signal_samples,
                           SignalRow(run_id, signal_id, dt_s, payload),
                           json_ok, SignalForeignKeys(run_id, signal_id))
        IN  /\ Len(signal_samples) < MaxSamples
            /\ signal_samples' =
                   WithConnection(signal_samples, ins.rows, ins.exc)
            /\ store_tx' = StoreCall("insert_signal_sample",
                   <<run_id, signal_id>>, ins.exc,
                   IF ins.exc = "none" THEN <<ins.rowid>> ELSE <<>>,
                   IF ins.exc = "none" THEN 1 ELSE 0)
            /\ UNCHANGED <<runs, signal_catalog, spec_catalog, spec_samples>>
            /\ UNCHANGED beyondStore

InsertSpecSample(times) ==
    \E run_id \in RunIds, spec_id \in CatalogIds, dt_s \in times,
       payload \in StorePayloads, json_ok \in BOOLEAN :
        LET ins == Execute(spec_samples,
                           SpecRow(run_id, spec_id, dt_s, payload),
                           json_ok, SpecForeignKeys(run_id, spec_id))
        IN  /\ Len(spec_samples) < MaxSamples
            /\ spec_samples' = WithConnection(spec_samples, ins.rows, ins.exc)
            /\ store_tx' = StoreCall("insert_spec_sample",
                   <<run_id, spec_id>>, ins.exc,
                   IF ins.exc = "none" THEN <<ins.rowid>> ELSE <<>>,
                   IF ins.exc = "none" THEN 1 ELSE 0)
            /\ UNCHANGED <<runs, signal_catalog, spec_catalog,
                           signal_samples>>
            /\ UNCHANGED beyondStore

InsertSamplePair(times) ==
    \E run_id \in RunIds, signal_id \in CatalogIds, spec_id \in CatalogIds,
       dt_s \in times, payload \in StorePayloads,
       signal_json_ok \in BOOLEAN, spec_json_ok \in BOOLEAN :
        LET pair == SamplePair(SignalRow(run_id, signal_id, dt_s, payload),
                               SpecRow(run_id, spec_id, dt_s, payload),
                               signal_json_ok, spec_json_ok)
        IN  /\ Len(signal_samples) < MaxSamples
            /\ Len(spec_samples) < MaxSamples
            /\ signal_samples' = pair.signal_samples
            /\ spec_samples' = pair.spec_samples
            /\ store_tx' = StoreCall("insert_sample_pair",
                   <<run_id, signal_id, spec_id>>, pair.exc, pair.value,
                   pair.executed)
            /\ UNCHANGED <<runs, signal_catalog, spec_catalog>>
            /\ UNCHANGED beyondStore

InitStore ==
    /\ allow_writes = FALSE
    /\ dry_run = TRUE
    /\ last_write_at = [c \in AllChannels |-> None]
    /\ now = 0
    /\ planned = <<>>
    /\ pc = "idle"
    /\ exec = NoExecution
    /\ calls = <<>>
    /\ report = <<>>
    /\ InstrumentInit
    /\ TransportIdle(DefaultRetryCount)
    /\ StoreInit
    /\ MonitorIdle
    /\ FurtherIdle

NextStore ==
    \/ CreateRun
    \/ InsertSignalCatalog
    \/ InsertSpecCatalog
    \/ InsertSignalSample(StoreTimes)
    \/ InsertSpecSample(StoreTimes)
    \/ InsertSamplePair(StoreTimes)

SpecStore == InitStore /\ [][NextStore]_vars

\* the times a caller of the sample inserts may pass
SampleTimes == {-1, 0, 1}

\* the sample inserts alone, on a store that holds a run and its catalog rows
InitSamples ==
    /\ allow_writes = FALSE
    /\ dry_run = TRUE
    /\ last_write_at = [c \in AllChannels |-> None]
    /\ now = 0
    /\ planned = <<>>
    /\ pc = "idle"
    /\ exec = NoExecution
    /\ calls = <<>>
    /\ report = <<>>
    /\ InstrumentInit
    /\ TransportIdle(DefaultRetryCount)
    /\ runs = <<"run-001">>
    /\ signal_catalog = <<CatalogRow(1, 0)>>
    /\ spec_catalog = <<CatalogRow(1, 0)>>
    /\ signal_samples = <<>>
    /\ spec_samples = <<>>
    /\ store_tx = NoStoreCall
    /\ MonitorIdle
    /\ FurtherIdle

NextSamples ==
    \/ InsertSignalSample(SampleTimes)
    \/ InsertSpecSample(SampleTimes)
    \/ InsertSamplePair(SampleTimes)

SpecSamples == InitSamples /\ [][NextSamples]_vars

\* ------------------------------------------------ trajectory monitor run
beyondMonitor == <<policyVars, instrumentVars, transportVars, furtherVars>>

\* a run_iterations call that ended by raising exc
Raised(k, exc) == [k EXCEPT !.pc = "idle", !.outcome = "raised", !.exc = exc]

\* _cmd_trajectory_monitor_run up to the construction of the runner: open
\* the store, resolve the staged labels, create the run
CmdTrajectoryMonitorRun ==
    \E iterations \in {None} \cup 0..MaxTicks, run_name \in RunNames,
       signal_labels \in StagedSignalLabels,
       spec_labels \in StagedSpecLabels, interval_s \in 1..MaxInterval,
       rotate_entries \in 1..MaxRotate :
        LET c == Command("running", iterations, run_name, signal_labels,
                         spec_labels)
            labels_known ==
                \A label \in signal_labels \cup spec_labels :
                    RequireMonitorLabel(label)
        IN  /\ cli.pc = "none"
            /\ IF ~labels_known
               THEN /\ cli' = [c EXCEPT !.pc = "exited",
                                        !.exc = "ValueError"]
                    /\ UNCHANGED <<runs, store_tx, runner>>
               ELSE IF RunNameTaken(run_name)
               THEN /\ cli' = [c EXCEPT !.pc = "exited",
                                        !.exc = "ValueError"]
                    /\ store_tx' = StoreCall("create_run", <<run_name>>,
                                             "ValueError", <<>>, 0)
                    /\ UNCHANGED <<runs, runner>>
               ELSE /\ runs' = Append(runs, run_name)
                    /\ store_tx' = StoreCall("create_run", <<run_name>>,
                                             "none", <<Len(runs) + 1>>, 1)
                    /\ runner' = Runner(Len(runs) + 1, interval_s,
                                        rotate_entries)
                    /\ cli' = [c EXCEPT !.run_id = Len(runs) + 1,
                                        !.store_open = TRUE]
            /\ UNCHANGED <<signal_catalog, spec_catalog, signal_samples,
                           spec_samples>>
            /\ UNCHANGED <<clock, tick, action_events, monitor_errors>>
            /\ UNCHANGED beyondMonitor

\* the command calls run_iterations(count): count is --iterations, or 1 in
\* the endless loop; with count 0 the call returns 0 at once
RunIterations ==
    LET count == IF cli.iterations = None THEN 1 ELSE cli.iterations
        k == Iterations("wait", count, runner.sample_idx)
    IN  /\ cli.pc = "running"
        /\ runner.sample_idx + count <= MaxTicks
        /\ cli' = [cli EXCEPT !.pc = "calling"]
        /\ tick' = IF count = 0
                   THEN [k EXCEPT !.pc = "idle", !.outcome = "returned",
                                  !.value = 0]
                   ELSE k
        /\ UNCHANGED <<clock, runner, action_events, monitor_errors>>
        /\ UNCHANGED storeVars
        /\ UNCHANGED beyondMonitor

\* _wait_until_scheduled_sample_time when sleep_s returns or is not called
WaitUntilScheduledSampleTime ==
    LET t0 == IF runner.run_start_monotonic_s = None
              THEN clock ELSE runner.run_start_monotonic_s
        sleep_duration_s == ScheduledTime(runner, t0, runner.sample_idx)
                                - clock
    IN  /\ tick.pc = "wait"
        /\ runner' = [runner EXCEPT !.run_start_monotonic_s = t0]
        /\ clock' = IF sleep_duration_s > 0 THEN clock + sleep_duration_s
                                            ELSE clock
        /\ tick' = [tick EXCEPT
               !.pc = "catalog",
               !.sample_idx = runner.sample_idx,
               !.slept = IF sleep_duration_s > 0 THEN sleep_duration_s
                                                 ELSE None,
               !.woke = clock',
               !.created = FALSE]
        /\ UNCHANGED <<action_events, monitor_errors, cli>>
        /\ UNCHANGED storeVars
        /\ UNCHANGED beyondMonitor

\* _wait_until_scheduled_sample_time when sleep_s is interrupted
WaitInterrupted ==
    LET t0 == IF runner.run_start_monotonic_s = None
              THEN clock ELSE runner.run_start_monotonic_s
        sleep_duration_s == ScheduledTime(runner, t0, runner.sample_idx)
                                - clock
    IN  /\ tick.pc = "wait"
        /\ sleep_duration_s > 0
        /\ runner' = [runner EXCEPT !.run_start_monotonic_s = t0]
        /\ \E passed \in 0..(sleep_duration_s - 1) : clock' = clock + passed
        /\ tick' = Raised([tick EXCEPT !.sample_idx = runner.sample_idx,
                                       !.slept = sleep_duration_s,
                                       !.woke = None,
                                       !.created = FALSE],
                          "KeyboardInterrupt")
        /\ UNCHANGED <<action_events, monitor_errors, cli>>
        /\ UNCHANGED storeVars
        /\ UNCHANGED beyondMonitor

\* the catalog ids of the tick's segment, created when the runner has none,
\* and then the tick's dt_s
CatalogIdsForSegment ==
    \E latency \in 0..MaxStoreLatency :
        LET segment_id == SegmentId(runner, tick.sample_idx)
            known_signal == DictGet(runner.signal_catalog_ids, segment_id)
            known_spec == DictGet(runner.spec_catalog_ids, segment_id)
            row == CatalogRow(runner.run_id, segment_id)
            signal_ins == Execute(signal_catalog, row, TRUE,
                                  RunExists(runner.run_id))
            spec_ins == Execute(spec_catalog, row, TRUE,
                                RunExists(runner.run_id))
            created == known_signal = None \/ known_spec = None
        IN  /\ tick.pc = "catalog"
            /\ latency > 0 => created
            /\ clock' = clock + latency
            /\ signal_catalog' = IF known_signal = None
                                 THEN signal_ins.rows ELSE signal_catalog
            /\ spec_catalog' = IF known_spec = None
                               THEN spec_ins.rows ELSE spec_catalog
            /\ store_tx' = IF known_spec = None
                           THEN StoreCall("insert_spec_catalog",
                                          <<runner.run_id>>, "none",
                                          <<spec_ins.rowid>>, 1)
                           ELSE IF known_signal = None
                           THEN StoreCall("insert_signal_catalog",
                                          <<runner.run_id>>, "none",
                                          <<signal_ins.rowid>>, 1)
                           ELSE store_tx
            /\ runner' = [runner EXCEPT
                   !.signal_catalog_ids =
                       IF known_signal = None
                       THEN DictSet(@, segment_id, signal_ins.rowid) ELSE @,
                   !.spec_catalog_ids =
                       IF known_spec = None
                       THEN DictSet(@, segment_id, spec_ins.rowid) ELSE @]
            /\ tick' = [tick EXCEPT
                   !.pc = "poll",
                   !.signal_id = IF known_signal = None
                                 THEN signal_ins.rowid ELSE known_signal,
                   !.spec_id = IF known_spec = None
                               THEN spec_ins.rowid ELSE known_spec,
                   !.created = created,
                   !.dt_s = ElapsedSeconds(clock + latency,
                                           runner.run_start_monotonic_s)]
            /\ UNCHANGED <<runs, signal_samples, spec_samples>>
            /\ UNCHANGED <<action_events, monitor_errors, cli>>
            /\ UNCHANGED beyondMonitor

\* a poller raises: the exception leaves run_iterations
PollRaises ==
    \E latency \in 0..MaxPollLatency,
       exc \in {"NanonisTimeoutError", "KeyboardInterrupt"} :
        /\ tick.pc = "poll"
        /\ clock' = clock + latency
        /\ tick' = Raised(tick, exc)
        /\ UNCHANGED <<runner, action_events, monitor_errors, cli>>
        /\ UNCHANGED storeVars
        /\ UNCHANGED beyondMonitor

\* mutant: the tick is counted although an action event was not stored
RunnerAfterFailedEvent_Counts(r, spec_values) == [r EXCEPT !.sample_idx = @ + 1, !.previous_specs_by_label = spec_values]

\* the runner when insert_action_event raises: the assignments that follow
\* the loop of _record_spec_change_events and the call are not reached
RunnerAfterFailedEvent(r, spec_values) == r

\* both pollers return and the pair is inserted; insert_action_event raises
\* on one of the changed labels, after the events of the labels before it
\* were stored, and the exception leaves run_iterations
RecordSpecChangeEventRaises ==
    \E latency \in 0..MaxPollLatency, signal_values \in SignalSnapshots,
       spec_values \in [cli.spec_labels -> PollValues] :
        LET pair == SamplePair(
                        SignalRow(runner.run_id, tick.signal_id, tick.dt_s,
                                  signal_values),
                        SpecRow(runner.run_id, tick.spec_id, tick.dt_s,
                                spec_values),
                        TRUE, TRUE)
            events == RecordSpecChangeEvents(runner, tick.dt_s, spec_values)
        IN  /\ tick.pc = "poll"
            /\ pair.exc = "none"
            /\ events # <<>>
            /\ clock' = clock + latency
            /\ signal_samples' = pair.signal_samples
            /\ spec_samples' = pair.spec_samples
            /\ \E stored \in 0..(Len(events) - 1) :
                   action_events' = action_events \o SubSeq(events, 1, stored)
            /\ store_tx' = StoreCall("insert_action_event", <<runner.run_id>>,
                                     "OperationalError", <<>>, 0)
            /\ runner' = RunnerAfterFailedEvent(runner, spec_values)
            /\ tick' = Raised(tick, "OperationalError")
            /\ UNCHANGED <<runs, signal_catalog, spec_catalog>>
            /\ UNCHANGED <<monitor_errors, cli>>
            /\ UNCHANGED beyondMonitor

\* both pollers return; the pair is inserted, the spec changes are recorded
\* and the tick is counted
PollAndStore ==
    \E latency \in 0..MaxPollLatency, signal_values \in SignalSnapshots,
       spec_values \in [cli.spec_labels -> PollValues] :
        LET pair == SamplePair(
                        SignalRow(runner.run_id, tick.signal_id, tick.dt_s,
                                  signal_values),
                        SpecRow(runner.run_id, tick.spec_id, tick.dt_s,
                                spec_values),
                        TRUE, TRUE)
            events == RecordSpecChangeEvents(runner, tick.dt_s, spec_values)
            completed == tick.completed + 1
        IN  /\ tick.pc = "poll"
            /\ clock' = clock + latency
            /\ signal_samples' = pair.signal_samples
            /\ spec_samples' = pair.spec_samples
            /\ store_tx' = StoreCall("insert_sample_pair",
                   <<runner.run_id, tick.signal_id, tick.spec_id>>,
                   pair.exc, pair.value, pair.executed)
            /\ IF pair.exc # "none"
               THEN /\ tick' = Raised(tick, pair.exc)
                    /\ UNCHANGED <<runner, action_events>>
               ELSE /\ action_events' = action_events \o events
                    /\ runner' = [runner EXCEPT
                           !.previous_specs_by_label = spec_values,
                           !.has_previous_specs_snapshot = TRUE,
                           !.sample_idx = tick.sample_idx + 1]
                    /\ tick' = IF LoopDone(completed, tick.count)
                               THEN [tick EXCEPT !.pc = "idle",
                                                 !.completed = completed,
                                                 !.outcome = "returned",
                                                 !.value = completed]
                               ELSE [tick EXCEPT !.pc = "wait",
                                                 !.completed = completed]
            /\ UNCHANGED <<runs, signal_catalog, spec_catalog>>
            /\ UNCHANGED <<monitor_errors, cli>>
            /\ UNCHANGED beyondMonitor

\* run_iterations returned: the bounded command reports, the endless loop
\* adds the count and goes on
CmdReturned ==
    LET completed == IF cli.iterations = None
                     THEN cli.completed_iterations + tick.value
                     ELSE tick.value
    IN  /\ cli.pc = "calling"
        /\ tick.pc = "idle"
        /\ tick.outcome = "returned"
        /\ cli' = IF cli.iterations = None
                  THEN [cli EXCEPT !.pc = "running",
                                   !.completed_iterations = completed]
                  ELSE [cli EXCEPT !.pc = "exited",
                                   !.completed_iterations = completed,
                                   !.store_open = FALSE,
                                   !.reported = completed]
        /\ UNCHANGED <<clock, runner, tick, action_events, monitor_errors>>
        /\ UNCHANGED storeVars
        /\ UNCHANGED beyondMonitor

\* `except KeyboardInterrupt`: the command reports what was completed
CmdInterrupted ==
    LET completed == CompletedOnInterrupt(cli.completed_iterations,
                                          runner.sample_idx)
    IN  /\ cli.pc = "calling"
        /\ tick.pc = "idle"
        /\ tick.outcome = "raised"
        /\ tick.exc = "KeyboardInterrupt"
        /\ cli' = [cli EXCEPT !.pc = "exited",
                              !.interrupted = TRUE,
                              !.completed_iterations = completed,
                              !.store_open = FALSE,
                              !.reported = completed]
        /\ UNCHANGED <<clock, runner, tick, action_events, monitor_errors>>
        /\ UNCHANGED storeVars
        /\ UNCHANGED beyondMonitor

\* any other exception leaves the command through its finally block
CmdFailed ==
    /\ cli.pc = "calling"
    /\ tick.pc = "idle"
    /\ tick.outcome = "raised"
    /\ tick.exc # "KeyboardInterrupt"
    /\ cli' = [cli EXCEPT !.pc = "exited", !.exc = tick.exc,
                          !.store_open = FALSE]
    /\ UNCHANGED <<clock, runner, tick, action_events, monitor_errors>>
    /\ UNCHANGED storeVars
    /\ UNCHANGED beyondMonitor

InitMonitor ==
    /\ allow_writes = FALSE
    /\ dry_run = TRUE
    /\ last_write_at = [c \in AllChannels |-> None]
    /\ now = 0
    /\ planned = <<>>
    /\ pc = "idle"
    /\ exec = NoExecution
    /\ calls = <<>>
    /\ report = <<>>
    /\ InstrumentInit
    /\ TransportIdle(DefaultRetryCount)
    /\ runs \in {<<>>, <<"run-001">>}
    /\ signal_catalog = <<>>
    /\ spec_catalog = <<>>
    /\ signal_samples = <<>>
    /\ spec_samples = <<>>
    /\ store_tx = NoStoreCall
    /\ clock \in 0..MaxClockStart
    /\ runner = NoRunner
    /\ tick = NoIterations
    /\ action_events = <<>>
    /\ monitor_errors = <<>>
    /\ cli = NoCommand
    /\ FurtherIdle

NextMonitor ==
    \/ CmdTrajectoryMonitorRun
    \/ RunIterations
    \/ WaitUntilScheduledSampleTime
    \/ WaitInterrupted
    \/ CatalogIdsForSegment
    \/ PollRaises
    \/ PollAndStore
    \/ RecordSpecChangeEventRaises
    \/ CmdReturned
    \/ CmdInterrupted
    \/ CmdFailed

SpecMonitor == InitMonitor /\ [][NextMonitor]_vars

\* a caller of the runner that catches the store's error and calls
\* run_iterations(1) to take the tick again
RunIterationsAfterStoreError ==
    /\ cli.pc = "calling"
    /\ tick.pc = "idle"
    /\ tick.outcome = "raised"
    /\ tick.exc = "OperationalError"
    /\ Len(signal_samples) < MaxTicks
    /\ tick' = Iterations("wait", 1, runner.sample_idx)
    /\ UNCHANGED <<clock, runner, action_events, monitor_errors, cli>>
    /\ UNCHANGED storeVars
    /\ UNCHANGED beyondMonitor

NextRunner ==
    \/ NextMonitor
    \/ RunIterationsAfterStoreError

\* a new store and a clock that starts at 0
InitRunner ==
    /\ InitMonitor
    /\ runs = <<>>
    /\ clock = 0

SpecRunner == InitRunner /\ [][NextRunner]_vars

\* ------------------------------------- callers sharing one WritePolicy
\* everything the callers of the policy neither read nor write
beyondCallers == <<planned, pc, exec, calls, report, instrumentVars, transportVars, storeVars, monitorVars, readVars, journalVars, catalogueVars>>

\* the channels the callers write to: one with a cooldown, one without
CallerChannels == {"setpoint_a", "bias_v"}

\* a caller thread calls plan_scalar_write and keeps the plan it returns; a
\* rejected request raises and leaves nothing to keep
CallerPlans(c) ==
    /\ caller[c].pc = "idle"
    /\ caller[c].made < MaxPlans
    /\ Len(plans_held[c]) < MaxHeld
    /\ \E channel \in CallerChannels, current \in ReqVals, target \in ReqVals :
          LET req == Request("scalar", channel, current, target, TRUE, FALSE,
                             None)
              res == PlanOutcome(req)
          IN  plans_held' =
                 IF res.ok
                 THEN [plans_held EXCEPT ![c] =
                          Append(@, HeldPlan(channel, res.steps,
                                             res.interval_s, res.dry_run))]
                 ELSE plans_held
    /\ caller' = [caller EXCEPT ![c].made = @ + 1]
    /\ UNCHANGED <<allow_writes, dry_run, last_write_at, now, live_writes>>
    /\ UNCHANGED beyondCallers

\* a caller thread calls execute_plan on one of the plans it holds: a dry-run
\* plan returns at once, a live plan enters the loop
CallerExecutes(c) ==
    /\ caller[c].pc = "idle"
    /\ \E i \in 1..Len(plans_held[c]) :
          LET plan == plans_held[c][i]
          IN  /\ plans_held' = [plans_held EXCEPT ![c] =
                     SubSeq(@, 1, i - 1) \o SubSeq(@, i + 1, Len(@))]
              /\ caller' = [caller EXCEPT ![c] =
                     IF plan.dry_run
                     THEN CallerState("idle", NoPlan, 1, 0, @.made)
                     ELSE CallerState("send", plan, 1, 0, @.made)]
    /\ UNCHANGED <<allow_writes, dry_run, last_write_at, now, live_writes>>
    /\ UNCHANGED beyondCallers

\* the live writes after caller c sent step idx of its plan at time at_s
Sent(writes, c, channel, idx, at_s) ==
    IF idx = 1
    THEN Append(writes, [caller |-> c, channel |-> channel, first |-> at_s,
                         last |-> at_s])
    ELSE LET own == {k \in 1..Len(writes) : writes[k].caller = c}
             k == CHOOSE j \in own : \A m \in own : m <= j
         IN  [writes EXCEPT ![k].last = at_s]

\* one iteration of the loop of execute_plan: send_step(step_value), then
\* the sleep is started when another step follows
CallerSendStep(c) ==
    /\ caller[c].pc = "send"
    /\ LET o == caller[c]
           more == o.idx < Len(o.plan.steps)
       IN  /\ live_writes' = Sent(live_writes, c, o.plan.channel, o.idx, now)
           /\ caller' = [caller EXCEPT ![c] =
                  IF more /\ o.plan.interval_s > 0
                  THEN [o EXCEPT !.pc = "sleep",
                                 !.wake = FAdd(now, o.plan.interval_s)]
                  ELSE IF more
                  THEN [o EXCEPT !.idx = @ + 1]
                  ELSE [o EXCEPT !.pc = "record"]]
    /\ UNCHANGED <<allow_writes, dry_run, last_write_at, now, plans_held>>
    /\ UNCHANGED beyondCallers

\* sleep(plan.interval_s) returns when the interval has passed
CallerSleepReturns(c) ==
    /\ caller[c].pc = "sleep"
    /\ now >= caller[c].wake
    /\ caller' = [caller EXCEPT ![c].pc = "send", ![c].idx = @ + 1]
    /\ UNCHANGED <<allow_writes, dry_run, last_write_at, now, plans_held,
                   live_writes>>
    /\ UNCHANGED beyondCallers

\* after the loop: record_write(channel) with the time it reads
CallerRecordsWrite(c) ==
    /\ caller[c].pc = "record"
    /\ last_write_at' = RecordWrite(last_write_at, caller[c].plan.channel, now)
    /\ caller' = [caller EXCEPT ![c] =
                     CallerState("idle", NoPlan, 1, 0, @.made)]
    /\ UNCHANGED <<allow_writes, dry_run, now, plans_held, live_writes>>
    /\ UNCHANGED beyondCallers

InitCallers ==
    /\ allow_writes = TRUE
    /\ dry_run \in BOOLEAN
    /\ last_write_at = [c \in AllChannels |-> None]
    /\ now = 0
    /\ planned = <<>>
    /\ pc = "idle"
    /\ exec = NoExecution
    /\ calls = <<>>
    /\ report = <<>>
    /\ InstrumentInit
    /\ TransportIdle(DefaultRetryCount)
    /\ StoreInit
    /\ MonitorIdle
    /\ FurtherIdle

NextCallers ==
    \/ \E c \in Callers : CallerPlans(c)
    \/ \E c \in Callers : CallerExecutes(c)
    \/ \E c \in Callers : CallerSendStep(c)
    \/ \E c \in Callers : CallerSleepReturns(c)
    \/ \E c \in Callers : CallerRecordsWrite(c)
    \/ Tick

SpecCallers == InitCallers /\ [][NextCallers]_vars

\* -------------------------------------- parameter reads of the facade
\* everything the parameter getters neither read nor write
beyondReads == <<policyVars, instrumentVars, transportVars, storeVars, monitorVars, callerVars, journalVars, catalogueVars>>

\* the getter's transport call returns: the value is the getter's result; a
\* getter that records state transitions goes on to do so
GetReturns(t) ==
    /\ reader[t].pc = "idle"
    /\ Len(reads) < MaxReads
    /\ \E parameter \in ReadParameters :
          \E raw \in RawValues(parameter) :
             LET value == Returned(parameter, raw)
             IN  /\ reads' = Append(reads, [parameter |-> parameter,
                                            value |-> value])
                 /\ reader' = [reader EXCEPT ![t] =
                        IF parameter \in StateKeys
                        THEN ReaderState("record", parameter,
                                         Recorded(parameter, value), None)
                        ELSE ReaderIdle]
    /\ UNCHANGED <<last_state_values, trajectory_events>>
    /\ UNCHANGED beyondReads

\* _record_state_transition: previous = self._last_state_values.get(key)
RecordReadsPrevious(t) ==
    /\ reader[t].pc = "record"
    /\ reader' = [reader EXCEPT
           ![t].pc = "compare",
           ![t].previous = last_state_values[reader[t].state_key]]
    /\ UNCHANGED <<last_state_values, trajectory_events, reads>>
    /\ UNCHANGED beyondReads

\* _record_state_transition: an equal value returns, any other is kept as the
\* last value and a state_transition event is passed to the journal
RecordStateTransition(t) ==
    /\ reader[t].pc = "compare"
    /\ LET o == reader[t]
       IN  IF o.previous = o.value
           THEN UNCHANGED <<last_state_values, trajectory_events>>
           ELSE /\ last_state_values' =
                       [last_state_values EXCEPT ![o.state_key] = o.value]
                /\ trajectory_events' = Append(trajectory_events,
                       [state_key |-> o.state_key, old |-> o.previous,
                        new |-> o.value])
    /\ reader' = [reader EXCEPT ![t] = ReaderIdle]
    /\ UNCHANGED reads
    /\ UNCHANGED beyondReads

InitReads ==
    /\ allow_writes = FALSE
    /\ dry_run = TRUE
    /\ last_write_at = [c \in AllChannels |-> None]
    /\ now = 0
    /\ planned = <<>>
    /\ pc = "idle"
    /\ exec = NoExecution
    /\ calls = <<>>
    /\ report = <<>>
    /\ InstrumentInit
    /\ TransportIdle(DefaultRetryCount)
    /\ StoreInit
    /\ MonitorIdle
    /\ FurtherIdle

NextReads ==
    \/ \E t \in Readers : GetReturns(t)
    \/ \E t \in Readers : RecordReadsPrevious(t)
    \/ \E t \in Readers : RecordStateTransition(t)

SpecReads == InitReads /\ [][NextReads]_vars

\* ----------------------------------------------------- trajectory journal
\* everything the journal neither reads nor writes
beyondJournal == <<policyVars, instrumentVars, transportVars, storeVars, monitorVars, callerVars, readVars, catalogueVars>>

\* mutant: a file is replaced one event late
NeedsRotation_Late(j) == ~j.handle \/ j.segment_count > MaxEventsPerFile

\* _write_event: no file is open or the open one has its share of events
NeedsRotation(j) == ~j.handle \/ j.segment_count >= MaxEventsPerFile

\* mutant: the writer leaves as soon as the stop flag is set
WriterMayExit_OnStop(stop, q) == stop

\* _run: the stop flag is set and the queue is empty
WriterMayExit(stop, q) == stop /\ q = <<>>

\* _rotate_file: the next segment, empty, its file open
RotateFile(j) == [j EXCEPT !.segment_index = @ + 1, !.segment_count = 0, !.handle = TRUE]

\* the journal as _write_event writes into it
Rotated(j) == IF NeedsRotation(j) THEN RotateFile(j) ELSE j

\* the files after the first rotations up to the segment index
FilesUpTo(files, index) == IF Len(files) < index THEN Append(files, <<>>) ELSE files

\* the caller of emit() is at a place where it calls it
MayEmit(t) ==
    IF t = OwnerThread THEN owner \in {"start_emit", "close_emit"}
    ELSE emitter[t].made < MaxEmits

\* the owner's position after its emit() returned
AfterEmit(t) ==
    IF t # OwnerThread THEN owner
    ELSE IF owner = "start_emit" THEN "started" ELSE "set_stop"

\* start(): the writer thread is created and started; emit() follows
JournalStart ==
    /\ owner = "new"
    /\ journal.thread # "alive"
    /\ journal' = [journal EXCEPT !.stop = FALSE, !.thread = "alive"]
    /\ writer' = WriterState("loop", 0)
    /\ owner' = "start_emit"
    /\ UNCHANGED <<event_queue, segments, emitter, write_raised, accepted_before_close>>
    /\ UNCHANGED beyondJournal

\* emit(): with self._lock: self._submitted += 1
EmitCounts(t) ==
    /\ emitter[t].pc = "idle"
    /\ MayEmit(t)
    /\ journal' = [journal EXCEPT !.submitted = @ + 1]
    /\ emitter' = [emitter EXCEPT ![t] =
           EmitState("counted", journal.submitted + 1, emitter[t].made + 1)]
    /\ UNCHANGED <<event_queue, segments, writer, owner, write_raised, accepted_before_close>>
    /\ UNCHANGED beyondJournal

\* emit(): put_nowait() enqueues and emit returns True, or raises queue.Full
EmitPuts(t) ==
    /\ emitter[t].pc = "counted"
    /\ IF Len(event_queue) < QueueSize
       THEN /\ event_queue' = Append(event_queue, emitter[t].event)
            /\ emitter' = [emitter EXCEPT ![t].pc = "idle"]
            /\ owner' = AfterEmit(t)
            /\ accepted_before_close' =
                  IF owner \in {"new", "start_emit", "started"}
                  THEN accepted_before_close \cup {emitter[t].event}
                  ELSE accepted_before_close
       ELSE /\ emitter' = [emitter EXCEPT ![t].pc = "full"]
            /\ UNCHANGED <<event_queue, owner, accepted_before_close>>
    /\ UNCHANGED <<journal, segments, writer, write_raised>>
    /\ UNCHANGED beyondJournal

\* emit(): except queue.Full: with self._lock: self._dropped += 1; False
EmitDrops(t) ==
    /\ emitter[t].pc = "full"
    /\ journal' = [journal EXCEPT !.dropped = @ + 1]
    /\ emitter' = [emitter EXCEPT ![t].pc = "idle"]
    /\ owner' = AfterEmit(t)
    /\ UNCHANGED <<event_queue, segments, writer, write_raised, accepted_before_close>>
    /\ UNCHANGED beyondJournal

\* close(): the call begins with emit("journal_stopping")
JournalCloseBegins ==
    /\ owner = "started"
    /\ owner' = "close_emit"
    /\ UNCHANGED <<journal, event_queue, segments, emitter, writer, write_raised, accepted_before_close>>
    /\ UNCHANGED beyondJournal

\* close(): self._stop_event.set()
JournalSetsStop ==
    /\ owner = "set_stop"
    /\ journal' = [journal EXCEPT !.stop = TRUE]
    /\ owner' = "join"
    /\ UNCHANGED <<event_queue, segments, emitter, writer, write_raised, accepted_before_close>>
    /\ UNCHANGED beyondJournal

\* close(): thread.join(timeout=10.0) returns, the writer ended or not
JournalJoins ==
    /\ owner = "join"
    /\ owner' = IF writer.pc = "exited" THEN "joined" ELSE "timed_out"
    /\ UNCHANGED <<journal, event_queue, segments, emitter, writer, write_raised, accepted_before_close>>
    /\ UNCHANGED beyondJournal

\* close(): with self._lock: self._close_active_file(); self._thread = None
JournalClosesFile ==
    /\ owner \in {"joined", "timed_out"}
    /\ journal' = [journal EXCEPT !.handle = FALSE, !.thread = "none"]
    /\ owner' = IF owner = "joined" THEN "closed" ELSE "closed_unjoined"
    /\ UNCHANGED <<event_queue, segments, emitter, writer, write_raised, accepted_before_close>>
    /\ UNCHANGED beyondJournal

\* _run: the loop ends when the stop flag is set and the queue is empty
WriterChecks ==
    /\ writer.pc = "loop"
    /\ writer' = IF WriterMayExit(journal.stop, event_queue)
                 THEN WriterState("exited", 0) ELSE WriterState("get", 0)
    /\ UNCHANGED <<journal, event_queue, segments, emitter, owner, write_raised, accepted_before_close>>
    /\ UNCHANGED beyondJournal

\* _run: self._queue.get(timeout=0.1) returns an event or raises queue.Empty
WriterGets ==
    /\ writer.pc = "get"
    /\ IF event_queue # <<>>
       THEN /\ writer' = WriterState("write", Head(event_queue))
            /\ event_queue' = Tail(event_queue)
       ELSE /\ writer' = WriterState("loop", 0)
            /\ UNCHANGED event_queue
    /\ UNCHANGED <<journal, segments, emitter, owner, write_raised, accepted_before_close>>
    /\ UNCHANGED beyondJournal

\* _write_event returns: the file is replaced when due, the line is written
\* and flushed, the segment and the journal count it
WriterWrites ==
    /\ writer.pc = "write"
    /\ LET j == Rotated(journal)
           files == FilesUpTo(segments, j.segment_index)
       IN  /\ journal' = [j EXCEPT !.segment_count = @ + 1, !.written = @ + 1]
           /\ segments' = [files EXCEPT ![j.segment_index] = Append(@, writer.event)]
    /\ writer' = WriterState("loop", 0)
    /\ UNCHANGED <<event_queue, emitter, owner, write_raised, accepted_before_close>>
    /\ UNCHANGED beyondJournal

\* _write_event raises: open() of the next file failed, or a write or the
\* flush did, the line having reached the file or not; _run keeps the error
WriterWriteRaises ==
    /\ writer.pc = "write"
    /\ journal.errors < MaxWriteErrors
    /\ \E opened \in BOOLEAN, reached \in BOOLEAN :
          /\ (~opened) => (NeedsRotation(journal) /\ ~reached)
          /\ LET j == Rotated(journal)
                 files == FilesUpTo(segments, j.segment_index)
             IN  /\ journal' = [j EXCEPT !.handle = opened,
                                        !.last_error = "OSError",
                                        !.errors = @ + 1]
                 /\ segments' = IF reached
                      THEN [files EXCEPT ![j.segment_index] = Append(@, writer.event)]
                      ELSE files
    /\ write_raised' = write_raised \cup {writer.event}
    /\ writer' = WriterState("loop", 0)
    /\ UNCHANGED <<event_queue, emitter, owner, accepted_before_close>>
    /\ UNCHANGED beyondJournal

\* the steps of the writer thread
WriterNext == WriterChecks \/ WriterGets \/ WriterWrites \/ WriterWriteRaises

InitJournal == InitReads

NextJournal ==
    \/ JournalStart
    \/ \E t \in JournalThreads : EmitCounts(t)
    \/ \E t \in JournalThreads : EmitPuts(t)
    \/ \E t \in JournalThreads : EmitDrops(t)
    \/ JournalCloseBegins
    \/ JournalSetsStop
    \/ JournalJoins
    \/ JournalClosesFile
    \/ WriterChecks
    \/ WriterGets
    \/ WriterWrites
    \/ WriterWriteRaises

SpecJournal == InitJournal /\ [][NextJournal]_vars

\* the writer is a thread of its own: a step it can take, it takes
SpecJournalFair == SpecJournal /\ WF_vars(WriterNext)

\* ----------------------------------------------------------- parameter file
\* everything the load of the parameter file neither reads nor writes
beyondCatalogue == <<policyVars, instrumentVars, transportVars, storeVars, monitorVars, callerVars, readVars, journalVars>>

\* the values a command key takes: no key, false, or a mapping with a command
CommandValues == {"absent", "false", "mapping"}

\* the vals blocks of the documents
ValsBlocks == {ValsBlock("absent", None, None), ValsBlock("mapping", 0, 5), ValsBlock("mapping", 5, 0)}

\* the safety blocks of the documents: no key, an empty mapping, a scalar, or
\* a mapping of limits
SafetyBlocks ==
    {SafetyBlock(kind, None, None, None, None, FALSE) : kind \in {"absent", "empty", "scalar"}}
        \cup {SafetyBlock("mapping", lo, hi, step, None, confirm) :
                 lo \in {None, 0}, hi \in {None, 0, 5}, step \in {None, 0, 1},
                 confirm \in BOOLEAN}

\* _parse_read_command, _parse_write_command: None for no key and for false
ParseCommand(value) == value = "mapping"

\* _parse_vals on a float parameter: None without the key, ValueError when
\* max < min
ParseVals(value) ==
    IF value.kind = "absent" THEN [ok |-> TRUE, vals |-> ValidatorSpec("none", None, None)]
    ELSE IF value.min # None /\ value.max # None /\ value.max < value.min
         THEN [ok |-> FALSE, vals |-> ValidatorSpec("none", None, None)]
         ELSE [ok |-> TRUE, vals |-> ValidatorSpec("numbers", value.min, value.max)]

\* mapping.get(key, default) of the safety block
BlockGet(present, value, default) == IF present /\ value # None THEN value ELSE default

\* _parse_safety: None for a parameter that is not writable and has no block
\* or an empty one; for every other a SafetySpec of the block's fields, the
\* block of a writable parameter without one being the empty mapping
ParseSafety(value, vals, writable) ==
    IF value.kind = "scalar" THEN LoadResult(FALSE, "must be a mapping", <<>>)
    ELSE IF ~writable /\ value.kind \in {"absent", "empty"}
    THEN LoadResult(TRUE, "", <<>>)
    ELSE LET given == value.kind = "mapping"
             min_value == BlockGet(given, value.min, vals.min_value)
             max_value == BlockGet(given, value.max, vals.max_value)
             max_step == BlockGet(given, value.max_step, None)
             cooldown_s == BlockGet(given, value.cooldown_s, 0)
         IN  IF min_value # None /\ max_value # None /\ max_value <= min_value
             THEN LoadResult(FALSE, "max must be > min", <<>>)
             ELSE IF max_step # None /\ max_step <= 0
             THEN LoadResult(FALSE, "max_step must be positive", <<>>)
             ELSE IF given /\ value.require_confirmation
             THEN LoadResult(FALSE, "require_confirmation is no longer supported", <<>>)
             ELSE LoadResult(TRUE, "", <<SafetySpec(min_value, max_value, max_step, cooldown_s)>>)

\* _parse_parameter_spec
ParseParameterSpec(mapping) ==
    LET get_cmd == ParseCommand(mapping.get_cmd)
        set_cmd == ParseCommand(mapping.set_cmd)
        vals == ParseVals(mapping.vals)
        safety == ParseSafety(mapping.safety, vals.vals, set_cmd)
    IN  IF ~get_cmd /\ ~set_cmd
        THEN LoadResult(FALSE, "must define at least one of get_cmd or set_cmd", NoSpec)
        ELSE IF ~vals.ok THEN LoadResult(FALSE, "max must be >= min", NoSpec)
        ELSE IF ~safety.ok THEN LoadResult(FALSE, safety.error, NoSpec)
        ELSE IF set_cmd /\ safety.spec = <<>>
        THEN LoadResult(FALSE, "must include safety settings", NoSpec)
        ELSE LoadResult(TRUE, "", ParameterSpec(get_cmd, set_cmd, vals.vals, safety.spec))

\* load_parameter_specs on a file of one parameter
LoadParameterSpecs ==
    /\ load_pc = "document"
    /\ loaded' = ParseParameterSpec(document)
    /\ load_pc' = "loaded"
    /\ UNCHANGED document
    /\ UNCHANGED <<callerVars, readVars, journalVars>>
    /\ UNCHANGED <<policyVars, instrumentVars, transportVars, storeVars, monitorVars>>

InitCatalogue ==
    /\ allow_writes = FALSE
    /\ dry_run = TRUE
    /\ last_write_at = [c \in AllChannels |-> None]
    /\ now = 0
    /\ planned = <<>>
    /\ pc = "idle"
    /\ exec = NoExecution
    /\ calls = <<>>
    /\ report = <<>>
    /\ InstrumentInit
    /\ TransportIdle(DefaultRetryCount)
    /\ StoreInit
    /\ MonitorIdle
    /\ CallersIdle
    /\ ReadsIdle
    /\ JournalIdle
    /\ document \in {ParameterMapping(g, w, v, b) : g \in CommandValues, w \in CommandValues, v \in ValsBlocks, b \in SafetyBlocks}
    /\ load_pc = "document"
    /\ loaded = NotLoaded

NextCatalogue == LoadParameterSpecs

SpecCatalogue == InitCatalogue /\ [][NextCatalogue]_vars

\* ----------------------------------------------------------------- claims
\* the last plan request, its outcome and the limit of its channel
Req == planned[1].req

Res == planned[1].res

Lim == limits[Req.channel]

Requested == planned # <<>> /\ Req.channel \in LimitChannels

Rejected == ~Res.ok /\ Res.exc \in {"PolicyViolation", "ConfirmationRequired"} /\ Res.steps = <<>>

\* the request passes the confirmation gate (the single-step planner has none)
Confirmed == Req.kind = "single" \/ ~Lim.require_confirmation \/ Req.confirmed \/ Req.approved

\* the cooldown window of the request's channel is still open
InCooldown == Req.last_time # None /\ Req.now_s - Req.last_time < Lim.cooldown_s

\* C1: while allow_writes is false every plan request is refused with
\* PolicyViolation, whatever its channel, values, dry-run flag and cooldown
\* state, and execute_plan never reaches the sender.
C1_WritesDisabledBlocksEveryPlan ==
    ~allow_writes =>
        /\ planned # <<>> =>
              ~Res.ok /\ Res.exc = "PolicyViolation" /\ Res.steps = <<>>
        /\ pc = "idle"
        /\ calls = <<>>
        /\ report = <<>>

\* a request that only the write gate refuses: dry run off, target in bounds
C1_Witness ==
    /\ ~allow_writes
    /\ Requested
    /\ ~Req.dry
    /\ Req.current_value # Req.target_value
    /\ OutcomeUnder(Req, TRUE, Req.dry, TableOf(Req.channel, Req.last_time, None)).ok
    /\ ~Res.ok

\* C2: executing a plan whose dry_run flag is true calls neither the sender
\* nor sleep, reports applied_steps = 0 and final_value = the plan's last
\* step, and leaves the last-write table as it was, whatever the policy's
\* dry_run flag is when the plan is executed.
C2_DryRunExecutionIsNoOp ==
    exec.dry_run =>
        /\ pc = "idle"
        /\ calls = <<>>
        /\ last_write_at = exec.lw0
        /\ report # <<>>
        /\ report[1].dry_run
        /\ report[1].applied_steps = 0
        /\ report[1].attempted_steps = Len(exec.steps)
        /\ report[1].final_value = exec.steps[Len(exec.steps)]

\* a dry-run plan of several steps executed after the policy went live
C2_Witness ==
    /\ exec.dry_run
    /\ ~dry_run
    /\ Len(exec.steps) > 1
    /\ report # <<>>

\* C3: a target below min or above max is refused with PolicyViolation and
\* yields no plan; a target equal to min or to max passes the bounds test and
\* is planned when the other gates (write gate, cooldown, confirmation) pass.
C3_BoundsInclusive ==
    Requested =>
        /\ (Req.target_value < Lim.min_value \/ Req.target_value > Lim.max_value)
              => Rejected
        /\ (Req.target_value \in {Lim.min_value, Lim.max_value}) =>
              /\ Res.error # "bounds"
              /\ (Req.kind = "scalar" /\ Req.allow /\ Confirmed /\ ~InCooldown)
                    => Res.ok /\ Res.steps[Len(Res.steps)] = Req.target_value

\* a ramp planned up to the maximum itself
C3_Witness ==
    /\ Requested
    /\ Req.kind = "scalar"
    /\ Req.target_value = Lim.max_value
    /\ Req.current_value < Req.target_value
    /\ Res.ok

\* the move of the request as the planner computes it: abs(target - current)
Delta == Abs(FSub(Req.target_value, Req.current_value))

\* the interval a single-step request is judged with
SingleInterval == IF Req.interval_arg = None THEN Lim.ramp_interval_s ELSE Req.interval_arg

WithinSlew == Lim.max_slew_per_s = None \/ Delta <= FMul(Lim.max_slew_per_s, SingleInterval)

InBounds == Req.target_value >= Lim.min_value /\ Req.target_value <= Lim.max_value

\* C4: a single-step request is refused when |target - current| > max_step,
\* and when a slew limit is set and |target - current| exceeds
\* max_slew_per_s * interval_s; a move of exactly max_step within the slew
\* allowance is accepted; an accepted single-step plan never has several steps.
C4_SingleStepRejectsLargeMoves ==
    (Requested /\ Req.kind = "single") =>
        /\ Delta > Lim.max_step => Rejected
        /\ ~WithinSlew => Rejected
        /\ (Delta = Lim.max_step /\ WithinSlew /\ Req.allow /\ InBounds /\ ~InCooldown)
              => Res.ok
        /\ Res.ok => Len(Res.steps) = 1

\* a move of exactly max_step accepted under a slew limit
C4_Witness ==
    /\ Requested
    /\ Req.kind = "single"
    /\ Delta = Lim.max_step
    /\ Lim.max_slew_per_s # None
    /\ Res.ok

\* the distance of step i of the returned plan from its predecessor
StepDelta(i) == Abs(Res.steps[i] - (IF i = 1 THEN Req.current_value ELSE Res.steps[i - 1]))

\* C5: in every returned plan the first step differs from current, and each
\* later step from its predecessor, by at most max_step and, when a slew
\* limit is set, by at most max_slew_per_s * interval_s; the last step equals
\* the target exactly.
C5_StepsWithinLimits ==
    (Requested /\ Req.kind = "scalar" /\ Res.ok) =>
        /\ \A i \in 1..Len(Res.steps) :
              /\ StepDelta(i) <= Lim.max_step
              /\ Lim.max_slew_per_s # None
                    => StepDelta(i) <= FMul(Lim.max_slew_per_s, Res.interval_s)
        /\ Res.steps[Len(Res.steps)] = Req.target_value

C8_Blocked == (Requested /\ InCooldown) => (Rejected /\ Res.exc = "PolicyViolation")

\* the outcome of a request does not depend on the other channels' entries
C8_OtherChannels ==
    planned # <<>> =>
        \A t \in Times \cup {None} :
            OutcomeUnder(Req, Req.allow, Req.dry, TableOf(Req.channel, Req.last_time, t)) = Res

\* a step that changes the table sets one channel's entry to the current time
C8_RecordStep ==
    \A c \in Channels :
        last_write_at'[c] # last_write_at[c] =>
            /\ last_write_at'[c] = now
            /\ \A d \in Channels \ {c} : last_write_at'[d] = last_write_at[d]

\* the completion of a live execution records the write of its channel
C8_FinishRecords ==
    (pc = "record" /\ pc' = "idle") => last_write_at'[exec.channel] = now

\* C8: after a live execution completes on a channel, or record_write is
\* called for it, at time t, every plan request on that channel at a time
\* now with now - t < cooldown_s is refused with PolicyViolation; the other
\* channels' last-write times and plan requests are unaffected.
C8_CooldownAfterWrite ==
    /\ [](C8_Blocked /\ C8_OtherChannels)
    /\ [][C8_RecordStep /\ C8_FinishRecords]_vars

\* a request refused only because its channel was written one tick earlier,
\* while the other channel carries a write of its own
C8_Witness ==
    /\ Requested
    /\ Req.allow
    /\ InBounds
    /\ Confirmed
    /\ InCooldown
    /\ Res.error = "cooldown"
    /\ \E c \in LimitChannels \ {Req.channel} : last_write_at[c] # None

\* the calls a live execution of the steps makes before it records the write
ExpectedCalls(steps, interval_s) ==
    [k \in 1..(2 * Len(steps) - 1) |->
        IF k % 2 = 1
        THEN [op |-> "send_step", arg |-> steps[(k + 1) \div 2]]
        ELSE [op |-> "sleep", arg |-> interval_s]]

\* C9: a live execution calls the sender once per step in plan order, with
\* sleep(interval_s) between consecutive steps and none after the last; on
\* completion applied_steps = len(steps) and the last value sent is
\* steps[-1]; the last-write time changes only after the final step is sent.
C9_LiveExecutionOrder ==
    /\ (report # <<>> /\ ~report[1].dry_run) =>
          /\ pc = "idle"
          /\ calls = ExpectedCalls(exec.steps, exec.interval_s)
                        \o <<[op |-> "record_write", arg |-> last_write_at[exec.channel]]>>
          /\ report[1].applied_steps = Len(exec.steps)
          /\ report[1].attempted_steps = Len(exec.steps)
          /\ calls[Len(calls) - 1] = [op |-> "send_step", arg |-> exec.steps[Len(exec.steps)]]
    /\ pc \in {"send", "sleep", "record"} =>
          /\ last_write_at = exec.lw0
          /\ report = <<>>
          /\ calls = SubSeq(ExpectedCalls(exec.steps, exec.interval_s), 1, Len(calls))

\* a live execution of several steps has completed
C9_Witness ==
    /\ report # <<>>
    /\ ~report[1].dry_run
    /\ Len(exec.steps) > 2
    /\ report[1].applied_steps = Len(exec.steps)

\* C10: the dry-run flag does not decide acceptance: the same request under
\* the same limits and last-write table is accepted or refused alike, with
\* the same steps, under either value of the flag; only the plan's dry_run
\* field differs.
C10_DryRunDoesNotDecide ==
    planned # <<>> =>
        LET other == OutcomeUnder(Req, Req.allow, ~Req.dry,
                                  TableOf(Req.channel, Req.last_time, None))
        IN  /\ other.ok = Res.ok
            /\ other.exc = Res.exc
            /\ other.error = Res.error
            /\ other.steps = Res.steps
            /\ other.interval_s = Res.interval_s
            /\ Res.ok => (Res.dry_run = Req.dry /\ other.dry_run = ~Req.dry)

\* a dry-run request refused by the cooldown
C10_Witness ==
    /\ Requested
    /\ Req.dry
    /\ Res.error = "cooldown"

\* the guarded write call that has just ended, and the entry it appended last
CallEnded == guard.phase = "done"

LastAudit == write_audit_log[Len(write_audit_log)]

\* the number of step commands the controller accepted during the call
SentCount ==
    Cardinality({i \in 1..Len(calls) :
                    calls[i].op \in {"send_step", "Scan_FrameSet"}})

\* C11: when the sender raises while sending step i (0-based) of a live
\* write, the failure record of that write says that exactly i steps were
\* applied, for scalar writes and scan-frame writes alike.
C11_FailureReportsAppliedSteps ==
    (CallEnded /\ guard.raised_in = "execution") =>
        /\ Len(write_audit_log) = guard.base + 1
        /\ LastAudit.status = "failed"
        /\ LastAudit.applied_steps = SentCount

\* C12: every guarded write call appends exactly one audit entry before it
\* returns or re-raises; the entry is 'blocked' exactly when a PolicyViolation
\* was raised during planning, 'failed' exactly when an error occurred during
\* execution, 'dry_run' for a successful dry run and 'applied' for a
\* successful live write.
C12_OneAuditEntryPerCall ==
    CallEnded =>
        /\ Len(write_audit_log) = guard.base + 1
        /\ LastAudit.status = "blocked" <=>
              (guard.raised_in = "planning"
                 /\ guard.exc \in {"PolicyViolation", "ConfirmationRequired"})
        /\ LastAudit.status = "failed" <=>
              guard.raised_in \in {"execution", "readback"}
        /\ LastAudit.status = "dry_run" <=>
              (guard.outcome = "returned" /\ LastAudit.dry_run)
        /\ LastAudit.status = "applied" <=>
              (guard.outcome = "returned" /\ ~LastAudit.dry_run)

\* ------------------------------------------------ claims on the transport
\* the positions of the events of one kind in a trace
EventsOf(tr, kinds) == {i \in 1..Len(tr) : tr[i].ev \in kinds}

Sends(tr) == EventsOf(tr, {"send"})

\* thread t has a command or a probe in flight on a backend session
InFlight(t) == thr[t].pc \in {"probe", "send"}

\* thread t is inside the lock of one of its operations
Inside(t) == thr[t].pc \notin {"idle", "acquire"}

Ended(t) == thr[t].pc = "idle" /\ thr[t].op # "none"

\* C13: a call() with retry count r sends its command at most r + 1 times;
\* every send that is followed by another one failed with ConnectionError or
\* TimeoutError, and between the two the active session was closed and a new
\* one established; the caller gets one outcome, the first successful
\* response or the final failure.
C13_RetryReconnectsThenResends ==
    \A t \in Threads :
        thr[t].op = "call" =>
            LET tr == thr[t].trace
                res == thr[t].result
            IN  /\ Cardinality(Sends(tr)) <= retry_count + 1
                /\ \A i \in Sends(tr) :
                      /\ tr[i].res = "ok" => i = Len(tr)
                      /\ (\E j \in Sends(tr) : j > i) =>
                            /\ tr[i].res \in {"NanonisConnectionError",
                                              "NanonisTimeoutError"}
                            /\ tr[i + 1].ev = "close"
                            /\ tr[i + 1].sid = tr[i].sid
                            /\ tr[i + 2].ev = "connect"
                            /\ tr[i + 3].ev = "send"
                            /\ tr[i + 3].sid = tr[i + 2].sid
                /\ Ended(t) =>
                      /\ res.kind \in {"returned", "raised"}
                      /\ res.kind = "returned" =>
                            /\ tr[Len(tr)].ev = "send"
                            /\ tr[Len(tr)].res = "ok"
                      /\ (res.kind = "raised" /\ res.origin = "command") =>
                            /\ tr[Len(tr)].ev = "send"
                            /\ tr[Len(tr)].res = res.value
                /\ ~Ended(t) => res.kind = "none"

\* a call that succeeded on its last permitted attempt after two reconnects
C13_Witness ==
    \E t \in Threads :
        /\ thr[t].op = "call"
        /\ Ended(t)
        /\ thr[t].result.kind = "returned"
        /\ Cardinality(Sends(thr[t].trace)) = 3
        /\ retry_count = 2

\* the error of the send that returns in this step of thread t
SendError(t) == thr'[t].trace[Len(thr[t].trace) + 1].res

FinalErrors ==
    {"NanonisInvalidArgumentError", "NanonisCommandUnavailableError",
     "NanonisProtocolError"}

C14_NoSendAfterFinalError ==
    \A t \in Threads :
        \A i \in Sends(thr[t].trace) :
            thr[t].trace[i].res \in FinalErrors =>
                /\ i = Len(thr[t].trace)
                /\ Ended(t)
                /\ thr[t].result.kind = "raised"
                /\ thr[t].result.value = thr[t].trace[i].res

C14_FinalErrorStep ==
    \A t \in Threads :
        (thr[t].pc = "send" /\ thr'[t] # thr[t] /\ SendError(t) \in FinalErrors)
            => /\ thr'[t].pc = "idle"
               /\ session' = session
               /\ active_port' = active_port
               /\ open_sessions' = open_sessions

\* C14: a call() attempt that fails with an error other than ConnectionError
\* or TimeoutError is raised to the caller at once: the command is not sent
\* again, and the session, the active port and the open backend sessions
\* are as before (no close, no reconnect).
C14_OtherErrorsAreNotRetried ==
    /\ []C14_NoSendAfterFinalError
    /\ [][C14_FinalErrorStep]_vars

\* an invalid-argument error raised on the attempt that followed a reconnect
C14_Witness ==
    \E t \in Threads :
        /\ Ended(t)
        /\ thr[t].result.kind = "raised"
        /\ thr[t].result.value = "NanonisInvalidArgumentError"
        /\ Cardinality(Sends(thr[t].trace)) = 2
        /\ session # None

\* the sessions with a command sent and not yet answered
Pending == {sid \in 1..MaxSessions : wire[sid] # <<>>}

C15_OneInFlight ==
    /\ Cardinality({t \in Threads : InFlight(t)}) <= 1
    /\ Cardinality({t \in Threads : Inside(t)}) <= 1
    /\ Cardinality(Pending) <= 1
    /\ \A sid \in Pending : Len(wire[sid]) = 1
    /\ \A t \in Threads :
          /\ Inside(t) => lock = t
          /\ (Ended(t) /\ thr[t].op = "call"
                /\ thr[t].result.kind = "returned")
                => thr[t].result.value = thr[t].cmd

\* while a thread is inside call() or connect(), the steps of other threads
\* leave the session, the active port and the backend sessions alone
C15_NoInterleaving ==
    \A t \in Threads :
        (Inside(t) /\ thr'[t] = thr[t]) =>
            /\ session' = session
            /\ active_port' = active_port
            /\ open_sessions' = open_sessions
            /\ wire' = wire

\* C15: with concurrent caller threads at most one backend command is in
\* flight; the send and receive of a call(), with any reconnect it makes,
\* are not interleaved with another call(), connect() or close(); each
\* caller receives the response to its own command.
C15_CallsAreSerialised ==
    /\ []C15_OneInFlight
    /\ [][C15_NoInterleaving]_vars

\* one thread's command is in flight while the other thread waits to send a
\* different command
C15_Witness ==
    \E t \in Threads, u \in Threads :
        /\ thr[t].pc = "send"
        /\ thr[u].op = "call"
        /\ thr[u].pc = "acquire"
        /\ thr[u].cmd # thr[t].cmd

\* C16: close() called from another thread while a call() is in flight can
\* close the session at once, the call still being in flight (the call then
\* surfaces a ConnectionError).
C16_CloseAbandonsInFlightCall ==
    \A a \in Threads, b \in Threads :
        (thr[a].op = "call" /\ thr[a].pc = "send"
            /\ thr[b].op = "close" /\ thr[b].pc = "acquire")
            => ENABLED Close(b)

\* the attempts of a connect(), successful or not, in the order made
Attempts_(ct) == EventsOf(ct, {"open", "open_failed"})

\* the k-th attempt (from 1) of a connect(): its port and its number
ExpectedPort(k) == Ports[((k - 1) \div (retry_count + 1)) + 1]

ExpectedAttempt(k) == ((k - 1) % (retry_count + 1)) + 1

C17_AttemptOrder ==
    \A t \in Threads :
        LET ct == thr[t].ctrace
            at == Attempts_(ct)
        IN  /\ Cardinality(at) <= Len(Ports) * (retry_count + 1)
            /\ \A i \in at :
                  LET k == Cardinality({j \in at : j <= i})
                  IN  /\ ct[i].port = ExpectedPort(k)
                      /\ ct[i].attempt = ExpectedAttempt(k)
            /\ \A i \in 1..Len(ct) :
                  /\ ct[i].ev = "open" =>
                        /\ thr[t].probing = ct[i].sid \/ i < Len(ct)
                        /\ i < Len(ct) =>
                              /\ ct[i + 1].ev \in {"probe", "probe_failed"}
                              /\ ct[i + 1].sid = ct[i].sid
                  /\ ct[i].ev \in {"probe", "probe_failed"} =>
                        /\ i > 1
                        /\ ct[i - 1].ev = "open"
                  /\ ct[i].ev = "probe" => i = Len(ct)
            /\ thr[t].probing # None => wire[thr[t].probing] = <<>>
            /\ thr[t].pc = "send" =>
                  /\ thr[t].sid = session
                  /\ \A u \in Threads : thr[u].probing # session

\* the step in which a probe of thread t succeeds keeps its session and port;
\* connect() on a connected transport returns without opening anything
C17_ConnectStep ==
    \A t \in Threads :
        /\ (thr[t].pc = "probe" /\ thr'[t].pc \in {"idle", "send_ready"}
              /\ thr'[t].result.kind # "raised")
              => /\ session' = thr[t].probing
                 /\ active_port' = Ports[thr[t].port_idx]
                 /\ open_sessions' = open_sessions
        /\ (thr[t].op = "connect" /\ thr[t].pc = "acquire"
              /\ thr'[t] # thr[t] /\ session # None)
              => /\ thr'[t].pc = "idle"
                 /\ thr'[t].result.kind = "returned"
                 /\ thr'[t].ctrace = <<>>
                 /\ session' = session
                 /\ active_port' = active_port
                 /\ open_sessions' = open_sessions

\* C17: connect() tries the candidate ports in the supplied order with at
\* most retry_count + 1 open attempts per port, probes each newly opened
\* session before anything else is sent on it, and stops at the first probe
\* success, keeping that session and port as the active ones; connect() on a
\* connected transport opens nothing.
C17_ConnectProtocol ==
    /\ []C17_AttemptOrder
    /\ [][C17_ConnectStep]_vars

\* a connect() that gave up the first port and succeeded on the second
C17_Witness ==
    \E t \in Threads :
        /\ thr[t].op = "connect"
        /\ Ended(t)
        /\ thr[t].result.kind = "returned"
        /\ retry_count > 0
        /\ Len(thr[t].failures) > retry_count + 1
        /\ active_port = Ports[2]
        /\ \E i \in 1..Len(thr[t].ctrace) : thr[t].ctrace[i].ev = "probe_failed"

\* the number of attempts a connect() makes when all of them fail
AllAttempts == Len(Ports) * (retry_count + 1)

\* thread t's connect(), or the connect() inside its call(), has failed
ConnectFailed(t) ==
    /\ Ended(t)
    /\ thr[t].result.kind = "raised"
    /\ thr[t].result.origin = "connect"

C18_Summary ==
    \A t \in Threads :
        ConnectFailed(t) =>
            LET f == thr[t].failures
                sm == thr[t].result.summary
                n == Len(f)
            IN  /\ thr[t].result.value = "NanonisConnectionError"
                /\ n = AllAttempts
                /\ \A k \in 1..n :
                      /\ f[k].port = ExpectedPort(k)
                      /\ f[k].attempt = ExpectedAttempt(k)
                /\ Len(sm) = IF n < 5 THEN n ELSE 5
                /\ \A k \in 1..Len(sm) : sm[k] = f[n - Len(sm) + k]
                /\ thr[t].op = "call" =>
                      \/ thr[t].trace = <<>>
                      \/ thr[t].trace[Len(thr[t].trace)].ev = "close"
                /\ Pending = {}

\* the step in which connect() gives up leaves the transport disconnected
C18_FailStep ==
    \A t \in Threads :
        (~ConnectFailed(t) /\ ConnectFailed(t)') =>
            /\ session' = None
            /\ active_port' = None
            /\ open_sessions' = {}
            /\ wire' = wire

\* C18: when every attempt on every port fails, connect() raises
\* ConnectionError with the last five per-attempt failures (all of them when
\* fewer were made) and the transport is disconnected, with no session and no
\* active port; a call() from the disconnected state surfaces that failure
\* and never sends its command.
C18_ConnectFailure ==
    /\ []C18_Summary
    /\ [][C18_FailStep]_vars

\* a call() on a disconnected transport whose connect made six failed attempts
C18_Witness ==
    \E t \in Threads :
        /\ ConnectFailed(t)
        /\ thr[t].op = "call"
        /\ thr[t].trace = <<>>
        /\ Len(thr[t].failures) = 6
        /\ Len(thr[t].result.summary) = 5

C19_NothingLeftOpen ==
    /\ open_sessions \subseteq
          {session} \cup {thr[t].probing : t \in Threads}
    /\ lock = None => open_sessions \subseteq {session}
    /\ session = None <=> active_port = None

\* the step of close(): the transport is disconnected with no session open,
\* and a close() of a disconnected transport changes nothing
C19_CloseStep ==
    \A t \in Threads :
        (thr[t].op = "close" /\ thr[t].pc = "acquire" /\ thr'[t].pc = "idle")
            => /\ session' = None
               /\ active_port' = None
               /\ open_sessions' = {}
               /\ session = None => open_sessions' = open_sessions

\* C19: close() from any state leaves the transport disconnected with every
\* backend session it ever opened closed, sessions whose probe failed
\* included; a second close() changes nothing, and connect() and close() in
\* any sequence leave no session open.
C19_CloseReleasesEverySession ==
    /\ []C19_NothingLeftOpen
    /\ [][C19_CloseStep]_vars

\* a close() that closed the session of a connected transport
C19_Witness ==
    \E t \in Threads :
        /\ thr[t].op = "close"
        /\ Ended(t)
        /\ thr[t].trace # <<>>
        /\ session = None
        /\ open_sessions = {}

\* the rows of the two sample tables
SampleTables == <<signal_samples, spec_samples>>

\* C20: insert_sample_pair is atomic: when either of its two inserts fails no
\* row is added to signal_samples or to spec_samples and the store is as it
\* was; when it succeeds exactly one row is added to each of the two tables
\* and nothing else changes.
C20_PairStep ==
    /\ store_tx'.op = "insert_sample_pair" /\ store_tx'.exc # "none"
           => /\ SampleTables' = SampleTables
              /\ UNCHANGED <<runs, signal_catalog, spec_catalog>>
              /\ store_tx'.value = <<>>
    /\ store_tx'.op = "insert_sample_pair" /\ store_tx'.exc = "none"
           => /\ Len(signal_samples') = Len(signal_samples) + 1
              /\ Len(spec_samples') = Len(spec_samples) + 1
              /\ SubSeq(signal_samples', 1, Len(signal_samples))
                     = signal_samples
              /\ SubSeq(spec_samples', 1, Len(spec_samples)) = spec_samples
              /\ store_tx'.value
                     = <<Len(signal_samples'), Len(spec_samples')>>
              /\ store_tx'.executed = 2
              /\ UNCHANGED <<runs, signal_catalog, spec_catalog>>

C20_SamplePairIsAtomic == [][C20_PairStep]_vars

\* the second INSERT of a pair failed on its foreign key after the first one
\* had executed, and the signal row of the pair is not in the table
C20_Witness ==
    /\ store_tx.op = "insert_sample_pair"
    /\ store_tx.exc = "IntegrityError"
    /\ store_tx.executed = 1
    /\ signal_catalog # <<>>
    /\ signal_samples = <<>>
    /\ spec_samples = <<>>

\* C29: create_run with a run name that already exists fails and leaves the
\* runs table as it was, so the run names of the store are pairwise distinct.
C29_DistinctRunNames == \A i, j \in 1..Len(runs) : runs[i] = runs[j] => i = j

C29_CreateRunStep ==
    /\ store_tx'.op = "create_run" /\ store_tx' # store_tx
           => IF \E i \in 1..Len(runs) : runs[i] = store_tx'.args[1]
              THEN /\ store_tx'.exc = "ValueError"
                   /\ runs' = runs
              ELSE /\ store_tx'.exc = "none"
                   /\ runs' = Append(runs, store_tx'.args[1])
    /\ store_tx'.op = "create_run" /\ store_tx'.exc = "ValueError"
           => UNCHANGED <<runs, signal_catalog, spec_catalog,
                          signal_samples, spec_samples>>

C29_RunNameCollisionIsAnError == []C29_DistinctRunNames /\ [][C29_CreateRunStep]_vars

\* a second create_run with the name of the stored run has failed
C29_Witness ==
    /\ store_tx.op = "create_run"
    /\ store_tx.exc = "ValueError"
    /\ Len(runs) = 1
    /\ runs[1] = store_tx.args[1]

\* the sample row (run_id, id) cites a row of catalog that is of its own run
Cites(catalog, id, run_id) == id \in 1..Len(catalog) /\ catalog[id].run_id = run_id

\* C30: a sample whose signal_id or spec_id names a catalog row of another
\* run, or no catalog row, is rejected and nothing is stored; every stored
\* sample cites an existing catalog row of its own run.
C30_SamplesCiteOwnRun ==
    /\ \A i \in 1..Len(signal_samples) :
           Cites(signal_catalog, signal_samples[i].signal_id,
                 signal_samples[i].run_id)
    /\ \A i \in 1..Len(spec_samples) :
           Cites(spec_catalog, spec_samples[i].spec_id,
                 spec_samples[i].run_id)

C30_SampleStep ==
    /\ ( /\ store_tx'.op = "insert_signal_sample"
         /\ ~Cites(signal_catalog, store_tx'.args[2], store_tx'.args[1]) )
           => /\ store_tx'.exc # "none"
              /\ UNCHANGED <<signal_samples, spec_samples>>
    /\ ( /\ store_tx'.op = "insert_spec_sample"
         /\ ~Cites(spec_catalog, store_tx'.args[2], store_tx'.args[1]) )
           => /\ store_tx'.exc # "none"
              /\ UNCHANGED <<signal_samples, spec_samples>>
    /\ ( /\ store_tx'.op = "insert_sample_pair"
         /\ \/ ~Cites(signal_catalog, store_tx'.args[2], store_tx'.args[1])
            \/ ~Cites(spec_catalog, store_tx'.args[3], store_tx'.args[1]) )
           => /\ store_tx'.exc # "none"
              /\ UNCHANGED <<signal_samples, spec_samples>>

C30_ForeignKeysHold == []C30_SamplesCiteOwnRun /\ [][C30_SampleStep]_vars

\* a signal sample of run 2 that names a catalog row of run 1 was rejected
C30_Witness ==
    /\ store_tx.op = "insert_signal_sample"
    /\ store_tx.exc = "IntegrityError"
    /\ Len(runs) = 2
    /\ store_tx.args[1] = 2
    /\ store_tx.args[2] \in 1..Len(signal_catalog)
    /\ signal_catalog[store_tx.args[2]].run_id = 1
    /\ signal_samples = <<>>

\* the step on which a tick is completed
TickCompletes == tick.pc = "poll" /\ runner'.sample_idx # runner.sample_idx

\* the step on which insert_action_event raises
EventStoreFails == tick.pc = "poll" /\ tick'.outcome = "raised" /\ tick'.exc = "OperationalError"

\* the step on which a run_iterations call returns
CallReturns == tick.outcome # "returned" /\ tick'.outcome = "returned"

\* C21: run_iterations(n) performs exactly n ticks and returns n; every
\* completed tick adds exactly one signal_samples row and one spec_samples
\* row, so that while no call has raised the run holds sample_idx rows in
\* each table; the ticks follow one another, each on the sample index the
\* one before it left.
C21_RowsMatchSampleIdx ==
    tick.outcome # "raised" =>
        /\ Len(signal_samples) = runner.sample_idx
        /\ Len(spec_samples) = runner.sample_idx
        /\ tick.pc \in {"catalog", "poll"} =>
               /\ tick.sample_idx = runner.sample_idx
               /\ tick.sample_idx = tick.base + tick.completed
        /\ tick.pc # "idle" => tick.completed < tick.count

C21_TickStep ==
    /\ TickCompletes =>
           /\ runner'.sample_idx = runner.sample_idx + 1
           /\ Len(signal_samples') = Len(signal_samples) + 1
           /\ Len(spec_samples') = Len(spec_samples) + 1
           /\ tick'.completed = tick.completed + 1
    /\ (~TickCompletes /\ ~EventStoreFails)
           => UNCHANGED <<signal_samples, spec_samples>>
    /\ CallReturns =>
           /\ tick'.value = tick'.count
           /\ runner'.sample_idx = tick'.base + tick'.count
           /\ Len(signal_samples') = tick'.base + tick'.count
           /\ Len(spec_samples') = tick'.base + tick'.count

C21_ExactlyNTicks == []C21_RowsMatchSampleIdx /\ [][C21_TickStep]_vars

\* run_iterations(3) has returned 3 and three rows are in each table
C21_Witness ==
    /\ tick.outcome = "returned"
    /\ tick.count = MaxTicks
    /\ tick.value = MaxTicks
    /\ Len(signal_samples) = MaxTicks
    /\ Len(spec_samples) = MaxTicks

\* C22: when a poller raises during a tick no sample row is stored for the
\* tick, the error is recorded as a monitor_errors row, and the loop goes on
\* with the next tick instead of ending the run.
C22_PollErrorStep ==
    ( /\ tick.pc = "poll"
      /\ tick'.outcome = "raised"
      /\ tick'.exc = "NanonisTimeoutError" )
        => /\ UNCHANGED <<signal_samples, spec_samples>>
           /\ Len(monitor_errors') = Len(monitor_errors) + 1
           /\ tick'.pc # "idle"

C22_PollErrorIsRecorded == [][C22_PollErrorStep]_vars

\* the value the label had in the last stored spec sample
StoredValue(spec_label) == spec_samples[Len(spec_samples)].vals[spec_label]

\* the events of the rows added to action_events on this step
NewEvents == {i \in (Len(action_events) + 1)..Len(action_events') : TRUE}

\* C23: an action event for a spec label is stored on a tick if and only if
\* the label's value differs from its value in the previous stored tick of
\* the run; the first tick stores none.
C23_EventStep ==
    /\ SubSeq(action_events', 1, Len(action_events)) = action_events
    /\ (~TickCompletes /\ ~EventStoreFails) => action_events' = action_events
    /\ EventStoreFails =>
           \A i \in NewEvents :
               LET spec_label == action_events'[i].spec_label
               IN  /\ action_events'[i].old_value = StoredValue(spec_label)
                   /\ action_events'[i].new_value
                          = spec_samples'[Len(spec_samples')].vals[spec_label]
                   /\ action_events'[i].old_value # action_events'[i].new_value
    /\ TickCompletes =>
           \A spec_label \in cli.spec_labels :
               LET new_value == spec_samples'[Len(spec_samples')]
                                    .vals[spec_label]
                   emitted == {i \in NewEvents :
                                  action_events'[i].spec_label = spec_label}
               IN  /\ emitted # {} <=>
                          /\ spec_samples # <<>>
                          /\ StoredValue(spec_label) # new_value
                   /\ Cardinality(emitted) <= 1
                   /\ \A i \in emitted :
                          /\ action_events'[i].old_value
                                 = StoredValue(spec_label)
                          /\ action_events'[i].new_value = new_value
                          /\ action_events'[i].dt_s
                                 = spec_samples'[Len(spec_samples')].dt_s
                          /\ action_events'[i].run_id = runner.run_id

C23_EventIffValueChanged == [][C23_EventStep]_vars

\* three ticks read Bias 0, 0, 1: one event, for Bias, on the third tick
C23_Witness ==
    /\ Len(spec_samples) = 3
    /\ spec_samples[1].vals = spec_samples[2].vals
    /\ spec_samples[3].vals["Bias"] # spec_samples[2].vals["Bias"]
    /\ spec_samples[3].vals["Setpoint"] = spec_samples[2].vals["Setpoint"]
    /\ Len(action_events) = 1
    /\ action_events[1].spec_label = "Bias"

\* C24: the dt_s of the stored samples are all >= 0 and non-decreasing in
\* insertion order, the first sample has dt_s = 0, and the signal row and
\* the spec row of one tick carry the same dt_s.
C24_DtSequence ==
    /\ \A i \in 1..Len(signal_samples) : signal_samples[i].dt_s >= 0
    /\ \A i \in 1..(Len(signal_samples) - 1) :
           signal_samples[i].dt_s <= signal_samples[i + 1].dt_s
    /\ \A i \in 1..Len(signal_samples) :
           i <= Len(spec_samples)
               => signal_samples[i].dt_s = spec_samples[i].dt_s
    /\ signal_samples # <<>> => signal_samples[1].dt_s = 0

\* the label of the catalog row a sample cites
SignalSegment(i) == signal_catalog[signal_samples[i].signal_id].label

SpecSegment(i) == spec_catalog[spec_samples[i].spec_id].label

\* C25: the k-th stored sample of a run (from 0) cites the signal and spec
\* catalog rows of segment floor(k / rotate_entries); the catalog rows of a
\* segment are created once, on the first tick of the segment and not
\* earlier.
C25_SamplesCiteTheirSegment ==
    /\ \A i \in 1..Len(signal_samples) :
           SignalSegment(i) = (i - 1) \div runner.rotate_entries
    /\ \A i \in 1..Len(spec_samples) :
           SpecSegment(i) = (i - 1) \div runner.rotate_entries
    /\ \A i \in 1..Len(signal_catalog) : signal_catalog[i].label = i - 1
    /\ \A i \in 1..Len(spec_catalog) : spec_catalog[i].label = i - 1

C25_CatalogStep ==
    (signal_catalog' # signal_catalog \/ spec_catalog' # spec_catalog)
        => /\ tick.pc = "catalog"
           /\ tick.sample_idx = Len(signal_samples)
           /\ tick.sample_idx % runner.rotate_entries = 0
           /\ signal_catalog' = Append(signal_catalog,
                  CatalogRow(runner.run_id,
                             tick.sample_idx \div runner.rotate_entries))
           /\ spec_catalog' = Append(spec_catalog,
                  CatalogRow(runner.run_id,
                             tick.sample_idx \div runner.rotate_entries))

C25_SegmentRotation == []C25_SamplesCiteTheirSegment /\ [][C25_CatalogStep]_vars

\* with rotate_entries 2 the third sample cites the rows of segment 1
C25_Witness ==
    /\ runner.rotate_entries = 2
    /\ Len(signal_samples) = 3
    /\ SignalSegment(2) = 0
    /\ SignalSegment(3) = 1
    /\ SpecSegment(3) = 1
    /\ Len(signal_catalog) = 2

\* the scheduled time of the tick in progress
Scheduled == runner'.run_start_monotonic_s + runner.sample_idx * runner.interval_s

\* the step on which a tick's wait ends and the step on which its dt_s is read
WaitEnds == tick.pc = "wait" /\ tick'.pc = "catalog"

DtRead == tick.pc = "catalog" /\ tick'.pc = "poll"

OnSchedule == tick.woke = runner.run_start_monotonic_s + tick.sample_idx * runner.interval_s

\* the sleep rule of C26, which the original and the amended statement share
C26_SleepRule ==
    /\ (tick.pc = "wait" /\ runner.run_start_monotonic_s = None)
           => runner'.run_start_monotonic_s = clock
    /\ (tick.pc = "wait" /\ runner.run_start_monotonic_s # None)
           => UNCHANGED <<runner>>
    /\ WaitEnds =>
           IF Scheduled > clock
           THEN /\ tick'.slept = Scheduled - clock
                /\ clock' = Scheduled
           ELSE /\ tick'.slept = None
                /\ clock' = clock
    /\ WaitEnds => tick'.woke = clock'

\* C26 as stated: the sleep before sample n is max(0, t0 + n * interval_s -
\* now) and is not called when that time has passed; a tick that starts on
\* schedule stores dt_s = n * interval_s.
C26_OnScheduleStep ==
    /\ C26_SleepRule
    /\ (DtRead /\ OnSchedule)
           => tick'.dt_s = tick.sample_idx * runner.interval_s

C26_CadenceStep ==
    /\ C26_SleepRule
    /\ DtRead =>
           /\ tick'.dt_s = (tick.woke - runner.run_start_monotonic_s)
                               + (clock' - clock)
           /\ ~tick'.created => clock' = clock
           /\ (OnSchedule /\ ~tick'.created)
                  => tick'.dt_s = tick.sample_idx * runner.interval_s
           /\ tick.slept # None => OnSchedule
           /\ ~OnSchedule =>
                  /\ tick.slept = None
                  /\ tick.woke > runner.run_start_monotonic_s
                                     + tick.sample_idx * runner.interval_s

C27_SleepInterruptedStep ==
    ( /\ tick.pc = "wait"
      /\ tick'.outcome = "raised" )
        => /\ tick'.exc = "KeyboardInterrupt"
           /\ tick'.slept # None
           /\ UNCHANGED storeVars
           /\ UNCHANGED <<action_events, monitor_errors>>
           /\ runner'.sample_idx = runner.sample_idx

C27_ReportsCompleted ==
    ( /\ cli.pc = "exited"
      /\ cli.interrupted )
        => /\ tick.exc = "KeyboardInterrupt"
           /\ cli.reported = runner.sample_idx
           /\ cli.reported = Len(signal_samples)
           /\ cli.reported = Len(spec_samples)
           /\ cli.reported = tick.base + tick.completed
           /\ ~cli.store_open

C27_ExitedStep == cli.pc = "exited" => UNCHANGED vars

C27_InterruptedSleep == []C27_ReportsCompleted /\ [][C27_SleepInterruptedStep /\ C27_ExitedStep]_vars

\* --iterations 3 was interrupted in the sleep before the third tick
C27_Witness ==
    /\ cli.pc = "exited"
    /\ cli.interrupted
    /\ cli.iterations = 3
    /\ cli.reported = 2
    /\ tick.slept # None
    /\ tick.woke = None

\* the staged labels all resolve to readable parameters
LabelsResolve(c) == \A label \in c.signal_labels \cup c.spec_labels : \E spec \in ParameterSpecs : spec.readable /\ spec.label = label

\* C28: a monitor run whose staged signal or spec labels include one that
\* resolves to no readable parameter fails before a run is created:
\* create_run is not called, the runs table is unchanged and the store
\* handle is closed on exit.
C28_NothingCreated ==
    (cli.pc # "none" /\ ~LabelsResolve(cli))
        => /\ cli.pc = "exited"
           /\ cli.exc = "ValueError"
           /\ cli.run_id = None
           /\ ~cli.store_open
           /\ store_tx = NoStoreCall
           /\ runner = NoRunner
           /\ signal_catalog = <<>> /\ signal_samples = <<>>

C28_StartStep == (cli.pc = "none" /\ ~LabelsResolve(cli')) => UNCHANGED <<runs, store_tx>>

CallRaises(t) ==
    /\ thr[t].op = "call"
    /\ thr[t].pc # "idle"
    /\ thr'[t].pc = "idle"
    /\ thr'[t].result.kind = "raised"

\* an error of the command leaves the session that failed in place, open and
\* with its port; an error of connect() leaves no session and no port
C35_RaiseStep ==
    \A t \in Threads :
        CallRaises(t) =>
            IF thr'[t].result.origin = "command"
            THEN /\ session # None
                 /\ session' = session
                 /\ active_port # None
                 /\ active_port' = active_port
                 /\ session \in open_sessions
                 /\ open_sessions' = open_sessions
            ELSE /\ thr'[t].result.origin = "connect"
                 /\ session' = None
                 /\ active_port' = None

C35_SessionIffPort ==
    lock = None => ((session # None) <=> (active_port # None))

\* C35: after call() raises, the transport is still connected with the
\* session and the active port of the failed attempt when the error came from
\* the command itself (a ConnectionError or TimeoutError on the last permitted
\* attempt included: the failing session is not closed), and is disconnected
\* when the error came from a failed connect or reconnect; whenever the lock
\* is free a session is held iff an active port is recorded.
C35_StateAfterRaise ==
    /\ []C35_SessionIffPort
    /\ [][C35_RaiseStep]_vars

\* a call() that raised the timeout of its last permitted attempt, after a
\* reconnect, and left the transport connected
C35_Witness ==
    \E t \in Threads :
        /\ thr[t].op = "call"
        /\ Ended(t)
        /\ thr[t].result.kind = "raised"
        /\ thr[t].result.origin = "command"
        /\ thr[t].result.value = "NanonisTimeoutError"
        /\ Cardinality(Sends(thr[t].trace)) = 2
        /\ lock = None
        /\ session # None
        /\ active_port # None

\* two live writes to one channel are at least its cooldown apart: the later
\* one's first send is cooldown_s or more after the earlier one's last send
Apart(w1, w2) ==
    LET cooldown_s == limits[w1.channel].cooldown_s
    IN  \/ FSub(w2.first, w1.last) >= cooldown_s
        \/ FSub(w1.first, w2.last) >= cooldown_s

\* C34: for a channel with cooldown_s > 0 no two live writes are applied to
\* it less than cooldown_s apart, under every interleaving of the callers'
\* plan and execute calls: two plans returned before either is executed and
\* two threads planning and executing at once included.
C34_WritesCooldownApart ==
    \A i, j \in 1..Len(live_writes) :
        (i < j /\ live_writes[i].channel = live_writes[j].channel
               /\ limits[live_writes[i].channel].cooldown_s > 0)
            => Apart(live_writes[i], live_writes[j])

\* v lies between a and b, both included
Between(a, v, b) == (a <= v /\ v <= b) \/ (b <= v /\ v <= a)

\* step i of the returned plan is no further from the target than its
\* predecessor and on the same side of it
TowardTarget(i) ==
    LET prev == IF i = 1 THEN Req.current_value ELSE Res.steps[i - 1]
    IN  Between(prev, Res.steps[i], Req.target_value)

\* the longest plan whose steps the rounding of target - current cannot
\* carry past the target: 2^(p-1) steps for floats of p bits, which is 2^52
\* steps for the doubles of the code, more than a tuple can hold
ExactSteps == 2^(MantBits - 1)

\* C36: every step of a returned plan lies between current_value and
\* target_value inclusive and the steps move monotonically toward the
\* target; so every step, which is every value a live guarded write sends,
\* is within [min_value, max_value] when the current value is.  Checked
\* for the plans of at most ExactSteps steps.
C36_StepsBetweenCurrentAndTarget ==
    (Requested /\ Res.ok /\ Len(Res.steps) <= ExactSteps) =>
        \A i \in 1..Len(Res.steps) :
            /\ Between(Req.current_value, Res.steps[i], Req.target_value)
            /\ TowardTarget(i)
            /\ (Lim.min_value <= Req.current_value
                   /\ Req.current_value <= Lim.max_value)
                  => (Lim.min_value <= Res.steps[i]
                        /\ Res.steps[i] <= Lim.max_value)

\* a ramp of three steps or more whose target - current is rounded
C36_Witness ==
    /\ Requested
    /\ Req.kind = "scalar"
    /\ Res.ok
    /\ Len(Res.steps) >= 3
    /\ Len(Res.steps) <= ExactSteps
    /\ FSub(Req.target_value, Req.current_value)
          # Req.target_value - Req.current_value
    /\ Lim.min_value <= Req.current_value
    /\ Req.current_value <= Lim.max_value

\* the Scan_FrameSet commands of the current or last guarded write
FrameCommands == {i \in 1..Len(calls) : calls[i].op = "Scan_FrameSet"}

\* a step that changes the last-write time of a component channel is the
\* end of a frame loop that sent every step, and sets all five to one time
C38_RecordStep ==
    (\E c \in FrameChannelSet : last_write_at'[c] # last_write_at[c]) =>
        /\ guard.op = "frame"
        /\ guard.phase = "record"
        /\ guard.applied = Len(guard.steps)
        /\ Cardinality(FrameCommands) = Len(guard.steps)
        /\ \A c \in FrameChannelSet : last_write_at'[c] = now
        /\ \A c \in AllChannels \ FrameChannelSet :
              last_write_at'[c] = last_write_at[c]

\* a frame write that ends in a failed step changes no last-write time
C38_FailedStep ==
    (guard'.op = "frame" /\ guard' # guard /\ guard'.raised_in = "execution")
        => last_write_at' = last_write_at

\* a frame write whose planning was rejected has sent no frame command
C38_RejectedPlanSendsNothing ==
    (guard.op = "frame" /\ guard.raised_in = "planning")
        => /\ FrameCommands = {}
           /\ calls = <<>>

\* C38: a live scan-frame write records the last-write time of all five
\* component channels with one common timestamp, and only after every frame
\* step has been sent; when the planning of a component is rejected no frame
\* command is sent, and when a frame step fails no component channel's
\* last-write time changes.
C38_FrameWriteRecordsAllOrNothing ==
    /\ []C38_RejectedPlanSendsNothing
    /\ [][C38_RecordStep]_vars
    /\ [][C38_FailedStep]_vars

\* a frame write of two steps or more that returned after the clock had
\* advanced: the five component channels carry the time of its end
C38_Witness ==
    /\ guard.op = "frame"
    /\ guard.outcome = "returned"
    /\ Len(guard.steps) >= 2
    /\ guard.applied = Len(guard.steps)
    /\ now > 0
    /\ \A c \in FrameChannelSet : last_write_at[c] = now

\* C31: the store enforces dt_s >= 0 on sample rows: an insert of a signal
\* sample, a spec sample or a sample pair with dt_s < 0 is rejected, so no
\* stored sample row has a negative dt_s.
C31_DtNonNegative ==
    /\ \A i \in 1..Len(signal_samples) : signal_samples[i].dt_s >= 0
    /\ \A i \in 1..Len(spec_samples) : spec_samples[i].dt_s >= 0

\* the spec values of the pair stored on this step
PairStored == spec_samples'[Len(spec_samples')].vals

\* the step stores one row in each sample table
PairAdded ==
    /\ Len(signal_samples') = Len(signal_samples) + 1
    /\ Len(spec_samples') = Len(spec_samples) + 1
    /\ SubSeq(signal_samples', 1, Len(signal_samples)) = signal_samples
    /\ SubSeq(spec_samples', 1, Len(spec_samples)) = spec_samples

\* sample_idx or the snapshot of the runner changes on this step
SnapshotOrIndexChanges ==
    \/ runner'.sample_idx # runner.sample_idx
    \/ runner'.previous_specs_by_label # runner.previous_specs_by_label
    \/ runner'.has_previous_specs_snapshot # runner.has_previous_specs_snapshot

\* sample_idx and the snapshot change only on the step that stored the pair
\* and every action event of the tick
C37_UpdateStep ==
    SnapshotOrIndexChanges =>
        /\ tick.pc = "poll"
        /\ tick'.outcome # "raised"
        /\ PairAdded
        /\ action_events' = action_events
               \o RecordSpecChangeEvents(runner, tick.dt_s, PairStored)
        /\ runner'.sample_idx = runner.sample_idx + 1
        /\ runner'.previous_specs_by_label = PairStored
        /\ runner'.has_previous_specs_snapshot

\* when insert_action_event raises the pair and the events before the failed
\* one are stored, and sample_idx and the snapshot are as before
C37_FailStep ==
    EventStoreFails =>
        LET events == RecordSpecChangeEvents(runner, tick.dt_s, PairStored)
        IN  /\ PairAdded
            /\ \E stored \in 0..(Len(events) - 1) :
                   action_events' = action_events \o SubSeq(events, 1, stored)
            /\ ~SnapshotOrIndexChanges

\* every tick works on the sample index the runner holds
C37_TickUsesRunnerIndex ==
    tick.pc \in {"catalog", "poll"} => tick.sample_idx = runner.sample_idx

\* C37: within a tick sample_idx and the previous-spec snapshot are updated
\* only after the sample pair and every action event of the tick have been
\* stored; when storing an action event fails the pair and the events stored
\* before it remain while sample_idx and the snapshot keep their old values,
\* so the next tick takes the same sample index and compares against the old
\* snapshot.
C37_IndexAndSnapshotAfterStores ==
    /\ []C37_TickUsesRunnerIndex
    /\ [][C37_UpdateStep]_vars
    /\ [][C37_FailStep]_vars

\* a tick that failed after the first of its two events was stored, taken
\* again: the first event is stored a second time, from the same old value
C37_Witness ==
    /\ tick.outcome = "returned"
    /\ Len(signal_samples) = runner.sample_idx + 1
    /\ Len(action_events) = 3
    /\ action_events[1].spec_label = action_events[2].spec_label
    /\ action_events[1].old_value = action_events[2].old_value
    /\ action_events[1].dt_s < action_events[2].dt_s

\* the value last observed for the parameter before read i: None when the
\* parameter was not read before
LastObserved(i) ==
    LET before == {j \in 1..(i - 1) : reads[j].parameter = reads[i].parameter}
    IN  IF before = {} THEN None
        ELSE reads[CHOOSE j \in before : \A k \in before : k <= j].value

\* the reads whose value differs from the last value observed
Differing == {i \in 1..Len(reads) : reads[i].value # LastObserved(i)}

RECURSIVE ParametersOf(_, _)
\* the parameters of the reads of the set, in the order of the reads
ParametersOf(i, set) ==
    IF i > Len(reads) THEN <<>>
    ELSE (IF i \in set THEN <<reads[i].parameter>> ELSE <<>>)
             \o ParametersOf(i + 1, set)

\* C32: a read of any instrument parameter emits a state_transition event if
\* and only if the value read differs from the last value observed for that
\* parameter, and the events are emitted in the order in which the reads
\* returned: once every getter has returned, the events are those of the
\* differing reads, in the order of the reads.
C32_EventPerDifferingRead ==
    (\A t \in Readers : reader[t].pc = "idle") =>
        [i \in 1..Len(trajectory_events) |-> trajectory_events[i].state_key]
            = ParametersOf(1, Differing)

\* the events the writer thread holds between get() and the write's end
BeingWritten == IF writer.pc = "write" THEN 1 ELSE 0

\* the emit() calls that counted their event and have not yet returned
EmitsInProgress == Cardinality({t \in JournalThreads : emitter[t].pc # "idle"})

\* the lines of a file whose write returned
CountedLines(file) == SelectSeq(file, LAMBDA id : id \notin write_raised)

\* emit() returns True exactly when it enqueued its event, and False exactly
\* when it found the queue full and counted the event as dropped
C39_EmitStep ==
    /\ \A t \in JournalThreads :
          /\ (emitter[t].pc = "counted" /\ emitter'[t].pc = "idle") =>
                 /\ event_queue' = Append(event_queue, emitter[t].event)
                 /\ journal'.dropped = journal.dropped
          /\ (emitter[t].pc = "counted" /\ emitter'[t].pc = "full") =>
                 /\ Len(event_queue) = QueueSize
                 /\ event_queue' = event_queue
          /\ (emitter[t].pc = "full" /\ emitter'[t].pc = "idle") =>
                 /\ journal'.dropped = journal.dropped + 1
                 /\ event_queue' = event_queue
    /\ Len(event_queue') > Len(event_queue) =>
          \E t \in JournalThreads :
             emitter[t].pc = "counted" /\ emitter'[t].pc = "idle"
    /\ journal'.dropped # journal.dropped =>
          \E t \in JournalThreads :
             emitter[t].pc = "full" /\ emitter'[t].pc = "idle"
    /\ journal'.written >= journal.written
    /\ journal'.dropped >= journal.dropped

\* an emit() call in progress can always take its next step
C39_EmitNeverWaits ==
    \A t \in JournalThreads :
       /\ emitter[t].pc = "counted" => ENABLED EmitPuts(t)
       /\ emitter[t].pc = "full" => ENABLED EmitDrops(t)

\* C39 as stated: in every reachable state submitted == written + dropped +
\* (events queued or being written), and no journal file receives more than
\* max_events_per_file events.
C39_CountsBalanceInEveryState ==
    /\ journal.submitted =
          journal.written + journal.dropped + Len(event_queue) + BeingWritten
    /\ \A i \in DOMAIN segments : Len(segments[i]) <= MaxEventsPerFile

\* C39, amended: emit() never waits for room and returns true exactly when the
\* event was enqueued, false exactly when the queue was full and the event was
\* counted as dropped; in every reachable state submitted == written + dropped
\* + events queued or being written + emit() calls that counted their event
\* and have not returned + events whose write raised; written and dropped
\* never decrease; no journal file receives more than max_events_per_file
\* events whose write returned.
C39_CountsBalanceWithCallsInProgress ==
    /\ [](journal.submitted =
             journal.written + journal.dropped + Len(event_queue)
                 + BeingWritten + EmitsInProgress + Cardinality(write_raised))
    /\ [](\A i \in DOMAIN segments :
             Len(CountedLines(segments[i])) <= MaxEventsPerFile)
    /\ []C39_EmitNeverWaits
    /\ [][C39_EmitStep]_vars

\* an event was dropped on a full queue and the first file, full, was followed
\* by a second one, no write having raised
C39_Witness ==
    /\ journal.dropped > 0
    /\ write_raised = {}
    /\ journal.segment_index = 2
    /\ Len(segments) = 2
    /\ Len(segments[1]) = MaxEventsPerFile
    /\ Len(segments[2]) > 0

\* the event's line is in a journal file
IsWritten(id) == \E i \in DOMAIN segments : \E k \in DOMAIN segments[i] : segments[i][k] = id

\* the event is in the queue
IsQueued(id) == \E k \in DOMAIN event_queue : event_queue[k] = id

\* after close() joined the writer no event accepted before close() is queued
NoneLeftQueued ==
    owner \in {"joined", "closed"} =>
        \A id \in accepted_before_close : ~IsQueued(id)

\* C40 as stated: on a started journal, every event that emit() accepted
\* before close() was called is eventually written by the writer thread, and
\* after close() has joined the writer no such event remains queued.
C40_AcceptedIsEventuallyWritten ==
    /\ \A id \in 1..MaxEvents :
          [](((owner # "new") /\ id \in accepted_before_close)
                => <>IsWritten(id))
    /\ []NoneLeftQueued

\* C40, amended: on a started journal, every event that emit() accepted before
\* close() was called is eventually taken by the writer thread before it exits
\* and is written unless its _write_event raised (the error is kept in
\* last_error and the event is not written again); the writer stops only when
\* the stop flag is set and the queue is empty, so after close() has joined
\* the writer no event accepted before close() remains queued.
C40_AcceptedIsEventuallyWrittenOrRaised ==
    /\ \A id \in 1..MaxEvents :
          [](((owner # "new") /\ id \in accepted_before_close)
                => <>(IsWritten(id) \/ id \in write_raised))
    /\ [][(writer.pc # "exited" /\ writer'.pc = "exited") =>
             (journal.stop /\ event_queue = <<>>)]_vars
    /\ [](writer.pc = "exited" =>
             \A id \in accepted_before_close :
                IsWritten(id) \/ id \in write_raised)
    /\ [](write_raised # {} => journal.last_error # "None")
    /\ []NoneLeftQueued

\* close() joined the writer after several events were accepted, one of them
\* an event whose write raised
C40_Witness ==
    /\ owner = "closed"
    /\ writer.pc = "exited"
    /\ Cardinality(accepted_before_close) >= 3
    /\ write_raised # {}
    /\ write_raised \subseteq accepted_before_close

\* C33: catalogue load rejects a document in which a writable parameter (one
\* that declares set_cmd) has no safety block, so every writable
\* ParameterSpec that load returns carries limits taken from an explicitly
\* declared safety block; and every returned ParameterSpec has a get_cmd or a
\* set_cmd.
C33_WritableWithoutSafetyIsRejected ==
    load_pc = "loaded" =>
        /\ (document.set_cmd = "mapping" /\ document.safety.kind = "absent")
              => ~loaded.ok
        /\ (loaded.ok /\ loaded.spec.set_cmd) =>
              /\ document.safety.kind = "mapping"
              /\ loaded.spec.safety # <<>>
        /\ loaded.ok => (loaded.spec.get_cmd \/ loaded.spec.set_cmd)

====
